---- MODULE Spec2Model ----
(***************************************************************************)
(* Payment-gated request protocol of the Galaksio dashboard.               *)
(*                                                                         *)
(* One call of the executor (brokerRequestWithPayment, or the File branch  *)
(* of cache) is modelled as a state machine whose steps are the code       *)
(* between two awaits.  The broker and the wallet (window.ethereum) are    *)
(* the environment: every answer they can give is a nondeterministic       *)
(* choice of the step that receives it.                                    *)
(***************************************************************************)
EXTENDS Integers, Sequences, FiniteSets, TLC

(***************************************************************************)
(* Bounds of the model.                                                    *)
(***************************************************************************)
\* number of distinct values crypto.getRandomValues can deliver
MaxNonce == 2
\* number of distinct readings of Date.now()
MaxClock == 2
\* the unix second before the first clock reading
Epoch == 1700000
\* milliseconds the clock advances between two readings
ClockStep == 600

Nonces == 1..MaxNonce

\* number of executor calls that overlap
MaxCalls == 2
CallIds == 1..MaxCalls

\* largest target amount, in cents
MaxCents == 120
\* target amounts in units of 0.0001 USD: whole cents from 0.00 to MaxCents / 100
Amounts == { 100 * cents : cents \in 0..MaxCents }
Clock == 1..MaxClock

(***************************************************************************)
(* Texts and their conversions.  A JSON text is modelled by the value it   *)
(* denotes, wrapped; any other text by its raw content.  A base64 text     *)
(* wraps the text it encodes.                                              *)
(***************************************************************************)
NoHeaders == [k \in {} |-> ""]

\* JSON.stringify(v)
JSONStringify(v) == [json |-> v]

\* mutant of JSONParse: a parse that accepts any text
JSONParseLenient(t) == [ok |-> TRUE, value |-> IF "json" \in DOMAIN t THEN t.json ELSE t]

\* JSON.parse(t) / response.json(): throws on a text that is not JSON
JSONParse(t) ==
  IF "json" \in DOMAIN t THEN [ok |-> TRUE, value |-> t.json]
                         ELSE [ok |-> FALSE, value |-> t]

\* Buffer.from(t).toString('base64')
Base64Encode(t) == [b64 |-> t]

\* Buffer.from(t, 'base64').toString()
Base64Decode(t) == t.b64

\* {...a, ...b}: the keys of b win
Spread(a, b) ==
  [k \in (DOMAIN a) \cup (DOMAIN b) |-> IF k \in DOMAIN b THEN b[k] ELSE a[k]]

\* property access o.f, undefined when the property is absent
Get(o, f) == IF f \in DOMAIN o THEN o[f] ELSE "undefined"

HexDigit(d) == SubSeq("0123456789abcdef", d + 1, d + 1)

RECURSIVE ToString16(_)
\* n.toString(16)
ToString16(n) ==
  IF n < 16 THEN HexDigit(n) ELSE ToString16(n \div 16) \o HexDigit(n % 16)

(***************************************************************************)
(* x402 client                                                             *)
(***************************************************************************)
\* chainIds of getChainIdFromNetwork
ChainIdTable ==
  ("avalanche" :> 43114) @@ ("avalanche-c" :> 43114) @@ ("avalanche-c-chain" :> 43114)
    @@ ("avax" :> 43114) @@ ("base" :> 8453) @@ ("base-mainnet" :> 8453)
    @@ ("base-sepolia" :> 84532) @@ ("ethereum" :> 1) @@ ("eth-mainnet" :> 1)
    @@ ("polygon" :> 137) @@ ("polygon-mainnet" :> 137) @@ ("arbitrum" :> 42161)
    @@ ("optimism" :> 10)

DefaultChainId == 43114

getChainIdFromNetwork(network) ==
  IF network \in DOMAIN ChainIdTable THEN ChainIdTable[network]
                                     ELSE DefaultChainId

\* signWithMetaMask: const targetChainId = 43114
targetChainId == 43114

targetChainIdHex == "0x" \o ToString16(targetChainId)

ValidityWindow == 900

(***************************************************************************)
(* Inputs of the environment                                               *)
(***************************************************************************)
BROKER_API_BASE == "https://broker"

\* payment options a 402 challenge can carry
OptionA ==
  [scheme |-> "exact", network |-> "avalanche", payTo |-> "0xPayeeA",
   asset |-> "0xUSDC", maxAmountRequired |-> "10000"]

OptionB ==
  [scheme |-> "exact", network |-> "base", payTo |-> "0xPayeeB",
   asset |-> "0xUSDCbase", maxAmountRequired |-> "25000"]

\* options that lack a required field
OptionNoAsset ==
  [scheme |-> "exact", network |-> "avalanche", payTo |-> "0xPayeeA",
   maxAmountRequired |-> "10000"]

OptionNoPayTo ==
  [scheme |-> "exact", network |-> "avalanche", asset |-> "0xUSDC",
   maxAmountRequired |-> "10000"]

OptionNoAmount ==
  [scheme |-> "exact", network |-> "avalanche", payTo |-> "0xPayeeA",
   asset |-> "0xUSDC"]

\* a value of accepts that is not an array: arrays are the sequences, indexed
\* from 1, and this value is not one
NotAList == (0 :> "object")

\* the values a 402 body can denote when it is JSON
Challenges ==
  { [x402Version |-> 1, accepts |-> <<OptionA>>],
    [x402Version |-> 1, accepts |-> <<OptionB, OptionA>>],
    [x402Version |-> 1, accepts |-> <<OptionNoAsset>>],
    [x402Version |-> 1, accepts |-> <<OptionNoPayTo>>],
    [x402Version |-> 1, accepts |-> <<OptionNoAmount>>],
    [x402Version |-> 1, accepts |-> <<>>],
    [x402Version |-> 1, accepts |-> NotAList],
    [x402Version |-> 1] }

NotJSON == [raw |-> "<html>"]

JobBodies ==
  { JSONStringify([jobId |-> "abc", status |-> "completed"]),
    JSONStringify([jobId |-> "xyz", status |-> "queued"]) }

\* what the broker can answer to a request
Responses ==
  ([status : {200, 201}, body : JobBodies \cup {NotJSON}])
    \cup ([status : {402}, body : {JSONStringify(c) : c \in Challenges} \cup {NotJSON}])
    \cup ([status : {404, 500}, body : {[raw |-> "error"]}])

\* response.ok
Ok(response) == response.status >= 200 /\ response.status <= 299

\* the RequestInit the callers hand to brokerRequestWithPayment: run, store
\* and cache pass method and body; a caller header is allowed for as well
CallerHeaders ==
  { NoHeaders, [Accept |-> "application/json"], ("Content-Type" :> "text/plain") }

Calls ==
  ([branch : {"json"}, endpoint : {"/run", "/store", "/cache"},
    options : [method : {"POST"}, body : {"params"}, headers : CallerHeaders]])
    \cup
  ([branch : {"file"}, endpoint : {"/cache"},
    options : [method : {"POST"}, body : {"formData"}, headers : {NoHeaders}]])

\* answers of the wallet to eth_accounts
AccountLists == { <<>>, <<"0xAlice">>, <<"0xBob", "0xAlice">> }

\* answers of the wallet to eth_chainId
ChainIdAnswers == { targetChainIdHex, "0x1" }

\* switchError.code of the unknown-chain failure
ChainNotAdded == 4902

\* codes a rejected wallet_switchEthereumChain can carry (4001: user rejected)
SwitchErrorCodes == { ChainNotAdded, 4001 }


Signatures == { "0xsig" }

(***************************************************************************)
(* State                                                                   *)
(***************************************************************************)
VARIABLES
  call,            \* endpoint and options of this call of the executor
  hasEthereum,     \* window.ethereum is injected
  pc,              \* where the call is suspended
  requests,        \* the requests sent to the broker, in order
  responses,       \* the responses the broker gave, in order
  log,             \* every request to broker or wallet and how it settled
  paymentRequirements, \* the parsed 402 challenge
  accounts,        \* the wallet's answer to eth_accounts
  userAddress,     \* accounts[0]
  currentChainId,  \* the wallet's answer to eth_chainId
  switchError,     \* switchError.code caught in signWithMetaMask
  nonce,           \* signWithMetaMask's nonce
  dateNow,         \* the Date.now() read by signWithMetaMask, in ms
  validAfter,      \* signWithMetaMask's validAfter
  validBefore,     \* signWithMetaMask's validBefore
  signParams,      \* params of the eth_signTypedData_v4 request
  paymentResult,   \* what createX402Payment returned
  result,          \* value the executor resolved with
  error            \* error the executor rejected with

\* the page handler that awaits the executor (handleExecute, handleUpload)
VARIABLES
  handlerPc,       \* where the handler is suspended
  busy,            \* the executing / uploading flag
  saveRequests,    \* the requests sent to the internal API, in order
  toast            \* the last toast shown

pageVars == << handlerPc, busy, saveRequests, toast >>

\* executor calls that overlap on the one injected provider (window.ethereum)
VARIABLES
  callPc,          \* where each of the overlapping calls is suspended
  walletPending    \* the provider's unsettled requests, in the order issued

overlapVars == << callPc, walletPending >>

\* the relay fee calculator
VARIABLES
  targetAmountUSD, \* the argument, in units of 0.0001 USD
  relayFee,        \* what calculateRelayFee returned
  totalAmount      \* what calculateTotalAmount returned

feeVars == << targetAmountUSD, relayFee, totalAmount >>

\* revokeApproval
VARIABLES
  paymentInfo,     \* the argument of revokeApproval
  revokePc,        \* where revokeApproval is suspended
  transaction,     \* params[0] of the eth_sendTransaction request
  attempts,        \* the attempts counter of the receipt loop
  receipt,         \* the receipt of the receipt loop
  polls,           \* eth_getTransactionReceipt requests issued so far
  revokeError      \* message of the error revokeApproval rejected with

revokeVars == << paymentInfo, revokePc, transaction, attempts, receipt, polls, revokeError >>

\* fetchWith402
VARIABLES
  input,           \* the first argument of fetchWith402
  init,            \* the second argument of fetchWith402
  relay,           \* process.env.NEXT_PUBLIC_HTTPAYER_RELAY || ""
  fetchPc,         \* where fetchWith402 is suspended
  fetchRequests,   \* the requests fetchWith402 issued, in order
  fetchResponses,  \* the responses it got, in order
  fetchResult,     \* the response fetchWith402 resolved with
  fetchError       \* message of the error fetchWith402 rejected with

httpayerVars ==
  << input, init, relay, fetchPc, fetchRequests, fetchResponses, fetchResult, fetchError >>

\* the status refresh endpoint: PATCH of a job by its brokerJobId
VARIABLES
  session,         \* what auth() answers for the caller
  brokerJobId,     \* the route parameter
  brokerUrl,       \* process.env.NEXT_PUBLIC_BROKER_API_URL
  userAccount,     \* the userAccount table: externalId -> account id
  userJob,         \* the userJob table: row id -> record
  account,         \* the caller's account (its id)
  brokerResponse,  \* the job status fetched from the broker
  refreshPc,       \* where the handler is suspended
  refreshResponse  \* the response the handler returned

refreshVars ==
  << session, brokerJobId, brokerUrl, userAccount, userJob, account, brokerResponse,
     refreshPc, refreshResponse >>

\* WalletProvider: its React state, the browser's local storage, and its
\* pending wallet requests
VARIABLES
  walletAddress,   \* the walletAddress state ("undefined" while unset)
  isConnecting,    \* the isConnecting state
  localStorage,    \* the items of window.localStorage, by key
  savedAddress,    \* what the restore effect read at mount
  restorePc,       \* where the restore effect's eth_accounts request is
  connectPc,       \* where connectWallet is suspended
  walletToast      \* the last toast shown by the provider

walletVars ==
  << walletAddress, isConnecting, localStorage, savedAddress, restorePc, connectPc,
     walletToast >>

\* the parts of the application outside the payment flow
sideVars == << revokeVars, httpayerVars, refreshVars, walletVars >>

\* what the executor leaves alone
outerVars == << pageVars, overlapVars, feeVars, sideVars >>

executorVars ==
  << call, hasEthereum, pc, requests, responses, log, paymentRequirements,
     accounts, userAddress, currentChainId, switchError, nonce, dateNow, validAfter,
     validBefore, signParams, paymentResult, result, error >>

vars == << executorVars, outerVars >>

\* the payment flow, its page handlers and the fee calculator
coreVars == << executorVars, pageVars, overlapVars, feeVars >>

\* what revokeApproval leaves alone
notRevoke == << coreVars, httpayerVars, refreshVars, walletVars >>

\* what fetchWith402 leaves alone
notHttpayer == << coreVars, revokeVars, refreshVars, walletVars >>

\* what the status refresh leaves alone
notRefresh == << coreVars, revokeVars, httpayerVars, walletVars >>

\* what WalletProvider leaves alone
notWallet == << coreVars, revokeVars, httpayerVars, refreshVars >>

None == [none |-> TRUE]

\* JavaScript's null
Null == [null |-> TRUE]

NoToast == [kind |-> "", message |-> ""]

NoError == [message |-> "", detail |-> ""]

Event(ev, to, method) == [ev |-> ev, to |-> to, method |-> method]

\* a value not computed yet
Unset == -1

ExecutorInit ==
  /\ call \in Calls
  /\ hasEthereum \in BOOLEAN
  /\ pc = "INITIAL"
  /\ requests = <<>>
  /\ responses = <<>>
  /\ log = <<>>
  /\ paymentRequirements = None
  /\ accounts = <<>>
  /\ userAddress = ""
  /\ currentChainId = ""
  /\ switchError = 0
  /\ nonce = ""
  /\ dateNow = 0
  /\ validAfter = 0
  /\ validBefore = 0
  /\ signParams = None
  /\ paymentResult = None
  /\ result = None
  /\ error = NoError

PageInit ==
  /\ handlerPc = "awaitBroker"
  /\ busy = TRUE
  /\ saveRequests = <<>>
  /\ toast = NoToast

OverlapInit ==
  /\ callPc = [c \in CallIds |-> "INITIAL"]
  /\ walletPending = <<>>

\* the calculator has not been called
FeeIdle ==
  /\ targetAmountUSD = 0
  /\ relayFee = Unset
  /\ totalAmount = Unset

\* revokeApproval has not been called
RevokeIdle ==
  /\ paymentInfo = None
  /\ revokePc = "INITIAL"
  /\ transaction = None
  /\ attempts = 0
  /\ receipt = None
  /\ polls = 0
  /\ revokeError = ""

\* fetchWith402 has not been called
HttpayerIdle ==
  /\ input = ""
  /\ init = None
  /\ relay = ""
  /\ fetchPc = "INITIAL"
  /\ fetchRequests = <<>>
  /\ fetchResponses = <<>>
  /\ fetchResult = None
  /\ fetchError = ""

\* the rows of the userAccount table before the refresh
InitialAccounts == [u1 |-> "acc1", u2 |-> "acc2"]

\* the rows of the userJob table before the refresh: job j1 exists under two
\* accounts, job j2 under one
InitialJobs ==
  [r1 |-> [brokerJobId |-> "j1", userAccountId |-> "acc1", status |-> "queued",
           provider |-> "akash", rawStatus |-> None],
   r2 |-> [brokerJobId |-> "j1", userAccountId |-> "acc2", status |-> "queued",
           provider |-> "akash", rawStatus |-> None],
   r3 |-> [brokerJobId |-> "j2", userAccountId |-> "acc1", status |-> "running",
           provider |-> "e2b", rawStatus |-> None]]

\* no refresh has been requested
RefreshIdle ==
  /\ session = None
  /\ brokerJobId = ""
  /\ brokerUrl = "undefined"
  /\ userAccount = InitialAccounts
  /\ userJob = InitialJobs
  /\ account = None
  /\ brokerResponse = Null
  /\ refreshPc = "INITIAL"
  /\ refreshResponse = None

\* a local storage without items
NoItems == [key \in {} |-> ""]

\* WalletProvider is not rendered
WalletIdle ==
  /\ walletAddress = "undefined"
  /\ isConnecting = FALSE
  /\ localStorage = NoItems
  /\ savedAddress = Null
  /\ restorePc = "unmounted"
  /\ connectPc = "idle"
  /\ walletToast = NoToast

SideIdle == RevokeIdle /\ HttpayerIdle /\ RefreshIdle /\ WalletIdle

Init == ExecutorInit /\ PageInit /\ OverlapInit /\ FeeIdle /\ SideIdle

(***************************************************************************)
(* Pure parts of the executor and of the x402 client                       *)
(***************************************************************************)
RECURSIVE PadStart(_, _, _)
\* s.padStart(len, c)
PadStart(s, len, c) == IF Len(s) >= len THEN s ELSE PadStart(c \o s, len, c)

\* '0x' + the 32 random bytes in hex; n is the number the bytes denote
NonceHex(n) == "0x" \o PadStart(ToString16(n), 64, "0")

\* first fetch of brokerRequestWithPayment / of the File branch of cache
InitialRequest(c) ==
  IF c.branch = "json"
    THEN [url |-> BROKER_API_BASE \o c.endpoint,
          method |-> c.options.method,
          body |-> c.options.body,
          headers |-> Spread(("Content-Type" :> "application/json"),
                             c.options.headers)]
    ELSE [url |-> BROKER_API_BASE \o "/cache",
          method |-> "POST",
          body |-> "formData",
          headers |-> NoHeaders]

\* mutant of PaidRequest: the retry rebuilds its headers without the caller's
PaidRequestNoCallerHeaders(c, paymentHeader) ==
  [url |-> BROKER_API_BASE \o c.endpoint,
   method |-> c.options.method,
   body |-> c.options.body,
   headers |-> IF c.branch = "json"
                 THEN Spread(("Content-Type" :> "application/json"),
                             ("X-Payment" :> paymentHeader))
                 ELSE ("X-Payment" :> paymentHeader)]

\* second fetch, carrying the payment header
PaidRequest(c, paymentHeader) ==
  IF c.branch = "json"
    THEN [url |-> BROKER_API_BASE \o c.endpoint,
          method |-> c.options.method,
          body |-> c.options.body,
          headers |-> Spread(Spread(("Content-Type" :> "application/json"),
                                    c.options.headers),
                             ("X-Payment" :> paymentHeader))]
    ELSE [url |-> BROKER_API_BASE \o "/cache",
          method |-> "POST",
          body |-> "formData",
          headers |-> ("X-Payment" :> paymentHeader)]

\* mutant of FinalResponse: a response that is not ok starts the call over
FinalResponseRetrying(c, response) ==
  IF ~Ok(response)
    THEN [pc |-> "INITIAL", result |-> None, error |-> NoError]
    ELSE LET parsed == JSONParse(response.body) IN
         IF parsed.ok
           THEN [pc |-> "DONE", result |-> parsed.value, error |-> NoError]
           ELSE [pc |-> "FAILED", result |-> None,
                 error |-> [message |-> "SyntaxError", detail |-> "response.json()"]]

\* mutant of FinalResponse: only the job id of the body is handed on
FinalResponseSafeFields(c, response) ==
  IF ~Ok(response)
    THEN [pc |-> "FAILED", result |-> None,
          error |-> [message |-> IF c.branch = "json"
                                   THEN "Broker request failed"
                                   ELSE "Cache request failed",
                     detail |-> ToString(response.status)]]
    ELSE LET parsed == JSONParse(response.body) IN
         IF parsed.ok
           THEN [pc |-> "DONE", result |-> [jobId |-> parsed.value.jobId],
                 error |-> NoError]
           ELSE [pc |-> "FAILED", result |-> None,
                 error |-> [message |-> "SyntaxError", detail |-> "response.json()"]]

\* the final check of the response: throw unless ok, else response.json()
FinalResponse(c, response) ==
  IF ~Ok(response)
    THEN [pc |-> "FAILED", result |-> None,
          error |-> [message |-> IF c.branch = "json"
                                   THEN "Broker request failed"
                                   ELSE "Cache request failed",
                     detail |-> ToString(response.status)]]
    ELSE LET parsed == JSONParse(response.body) IN
         IF parsed.ok
           THEN [pc |-> "DONE", result |-> parsed.value, error |-> NoError]
           ELSE [pc |-> "FAILED", result |-> None,
                 error |-> [message |-> "SyntaxError", detail |-> "response.json()"]]

\* Array.isArray(v)
IsArray(v) == 0 \notin DOMAIN v

\* mutant of HasAccepts: only the presence of accepts is checked
HasAcceptsPresentOnly(requirements) == "accepts" \in DOMAIN requirements

\* createX402Payment's validation of requirements.accepts
HasAccepts(requirements) ==
  /\ "accepts" \in DOMAIN requirements
  /\ IsArray(requirements.accepts)
  /\ Len(requirements.accepts) # 0

\* mutant of SelectOption: the last option is taken
SelectLastOption(requirements) == requirements.accepts[Len(requirements.accepts)]

\* createX402Payment: const paymentOption = requirements.accepts[0]
SelectOption(requirements) == requirements.accepts[1]

\* EIP-712 domain of signWithMetaMask
Domain(paymentOption) ==
  [name |-> "USD Coin", version |-> "2", chainId |-> targetChainId,
   verifyingContract |-> Get(paymentOption, "asset")]

\* EIP-712 message of signWithMetaMask
Message(paymentOption, address, n, after, before) ==
  [from |-> address,
   to |-> Get(paymentOption, "payTo"),
   value |-> Get(paymentOption, "maxAmountRequired"),
   validAfter |-> after,
   validBefore |-> before,
   nonce |-> n]

\* params of the eth_signTypedData_v4 request
SignParams(paymentOption, address, n, after, before) ==
  [signer |-> address,
   typedData |-> JSONStringify(
     [domain |-> Domain(paymentOption),
      primaryType |-> "TransferWithAuthorization",
      message |-> Message(paymentOption, address, n, after, before)])]

\* mutant of PaymentData: the token carries the network label of the option
PaymentDataOptionNetwork(paymentOption, address, signature, n, after, before) ==
  [x402Version |-> 1,
   scheme |-> "exact",
   network |-> Get(paymentOption, "network"),
   payload |->
     [signature |-> signature,
      authorization |->
        [from |-> address,
         to |-> Get(paymentOption, "payTo"),
         value |-> Get(paymentOption, "maxAmountRequired"),
         validAfter |-> ToString(after),
         validBefore |-> ToString(before),
         nonce |-> n]]]

\* mutant of PaymentData: the window of the token starts at encoding time
PaymentDataLaterWindow(paymentOption, address, signature, n, after, before) ==
  [x402Version |-> 1,
   scheme |-> "exact",
   network |-> "avalanche",
   payload |->
     [signature |-> signature,
      authorization |->
        [from |-> address,
         to |-> Get(paymentOption, "payTo"),
         value |-> Get(paymentOption, "maxAmountRequired"),
         validAfter |-> ToString(after + 1),
         validBefore |-> ToString(before + 1),
         nonce |-> n]]]

\* paymentData of signWithMetaMask
PaymentData(paymentOption, address, signature, n, after, before) ==
  [x402Version |-> 1,
   scheme |-> "exact",
   network |-> "avalanche",
   payload |->
     [signature |-> signature,
      authorization |->
        [from |-> address,
         to |-> Get(paymentOption, "payTo"),
         value |-> Get(paymentOption, "maxAmountRequired"),
         validAfter |-> ToString(after),
         validBefore |-> ToString(before),
         nonce |-> n]]]

\* the token signWithMetaMask returns
EncodePayment(paymentData) == Base64Encode(JSONStringify(paymentData))

\* what createX402Payment returns for the token signWithMetaMask gave it
PaymentResult(paymentHeader, paymentOption) ==
  LET decodedHeader == JSONParse(Base64Decode(paymentHeader)).value IN
  [paymentHeader |-> paymentHeader,
   paymentInfo |->
     [network |-> decodedHeader.network,
      spender |-> decodedHeader.payload.authorization.to,
      asset |-> Get(paymentOption, "asset"),
      userAddress |-> decodedHeader.payload.authorization.from]]

\* the executor's paymentHeader: const paymentHeader = JSON.stringify(paymentResult)
PaymentHeaderValue(payment) == JSONStringify(payment)

(***************************************************************************)
(* Steps of one executor call                                              *)
(***************************************************************************)
\* mutant of Throw: a failed call cleans up by sending a revocation
ThrowRevoking(lg, message, detail) ==
  /\ pc' = "FAILED"
  /\ error' = [message |-> message, detail |-> detail]
  /\ log' = Append(lg, Event("request", "wallet", "eth_sendTransaction"))

\* the call rejects with an error
Throw(lg, message, detail) ==
  /\ pc' = "FAILED"
  /\ error' = [message |-> message, detail |-> detail]
  /\ log' = lg

\* mutant of UnixSeconds: the milliseconds are rounded to the nearest second
UnixSecondsRounded(ms) == (ms + 500) \div 1000

\* Math.floor(Date.now() / 1000)
UnixSeconds(ms) == ms \div 1000

\* signWithMetaMask from the nonce to the eth_signTypedData_v4 request
RequestSignature(lg) ==
  \E n \in Nonces, now \in Clock :
    LET paymentOption == SelectOption(paymentRequirements)
        ms == Epoch * 1000 + now * ClockStep
        after == UnixSeconds(ms)
        before == after + ValidityWindow
    IN /\ nonce' = NonceHex(n)
       /\ dateNow' = ms
       /\ validAfter' = after
       /\ validBefore' = before
       /\ signParams' = SignParams(paymentOption, userAddress, NonceHex(n), after, before)
       /\ log' = Append(lg, Event("request", "wallet", "eth_signTypedData_v4"))
       /\ pc' = "awaitSign"

\* the executor is called: the first fetch is issued
BrokerCall ==
  /\ pc = "INITIAL"
  /\ requests' = Append(requests, InitialRequest(call))
  /\ log' = Append(log, Event("request", "broker", "fetch"))
  /\ pc' = "awaitFetch"
  /\ UNCHANGED outerVars
  /\ UNCHANGED << call, hasEthereum, currentChainId, responses, paymentRequirements, accounts,
                  userAddress, switchError, nonce, dateNow, validAfter, validBefore,
                  signParams, paymentResult, result, error >>

\* the first fetch settles: 402 handling up to the eth_accounts request, or
\* the final check of the response
InitialResponse ==
  /\ pc = "awaitFetch"
  /\ \/ /\ Throw(Append(log, Event("reject", "broker", "fetch")), "TypeError", "fetch")
        /\ UNCHANGED << responses, paymentRequirements, result >>
     \/ \E response \in Responses :
          LET lg == Append(log, Event("resolve", "broker", "fetch"))
              lgParse == Append(lg, Event("parse", "challenge", "JSON.parse"))
              parsed == JSONParse(response.body)
              final == FinalResponse(call, response)
          IN /\ responses' = Append(responses, response)
             /\ IF response.status = 402
                  THEN IF ~parsed.ok
                         THEN /\ Throw(lgParse, "Invalid payment requirements from broker", "")
                              /\ UNCHANGED << paymentRequirements, result >>
                         ELSE /\ paymentRequirements' = parsed.value
                              /\ result' = result
                              /\ IF ~hasEthereum
                                   THEN Throw(lgParse, "Payment required but wallet not connected", "")
                                   ELSE /\ log' = Append(lgParse, Event("request", "wallet", "eth_accounts"))
                                        /\ pc' = "awaitAccounts"
                                        /\ error' = error
                  ELSE /\ pc' = final.pc
                       /\ result' = final.result
                       /\ error' = final.error
                       /\ log' = lg
                       /\ paymentRequirements' = paymentRequirements
  /\ UNCHANGED outerVars
  /\ UNCHANGED << call, hasEthereum, currentChainId, requests, accounts, userAddress, switchError,
                  nonce, dateNow, validAfter, validBefore, signParams, paymentResult >>

\* mutant of AccountsResponse: the empty account list is not checked for
AccountsResponseNoCheck ==
  /\ pc = "awaitAccounts"
  /\ \E answer \in AccountLists :
       /\ accounts' = answer
       /\ userAddress' = IF Len(answer) = 0 THEN "undefined" ELSE answer[1]
       /\ IF ~HasAccepts(paymentRequirements)
            THEN Throw(Append(log, Event("resolve", "wallet", "eth_accounts")),
                       "Invalid x402 payment requirements", "missing 'accepts' array")
            ELSE /\ log' = log \o << Event("resolve", "wallet", "eth_accounts"),
                                    Event("request", "wallet", "eth_chainId") >>
                 /\ pc' = "awaitChainId"
                 /\ error' = error
  /\ UNCHANGED outerVars
  /\ UNCHANGED << call, hasEthereum, currentChainId, requests, responses, paymentRequirements,
                  switchError, nonce, dateNow, validAfter, validBefore, signParams,
                  paymentResult, result >>

\* eth_accounts settles: the account check, createX402Payment's validation and
\* signWithMetaMask up to the eth_chainId request
AccountsResponse ==
  /\ pc = "awaitAccounts"
  /\ \/ /\ Throw(Append(log, Event("reject", "wallet", "eth_accounts")),
                 "wallet error", "eth_accounts")
        /\ UNCHANGED << accounts, userAddress >>
     \/ \E answer \in AccountLists :
          LET lg == Append(log, Event("resolve", "wallet", "eth_accounts")) IN
          /\ accounts' = answer
          /\ IF Len(answer) = 0
               THEN /\ Throw(lg, "Wallet not connected", "")
                    /\ userAddress' = userAddress
               ELSE /\ userAddress' = answer[1]
                    /\ IF ~HasAccepts(paymentRequirements)
                         THEN Throw(lg, "Invalid x402 payment requirements",
                                    "missing 'accepts' array")
                         ELSE /\ log' = Append(lg, Event("request", "wallet", "eth_chainId"))
                              /\ pc' = "awaitChainId"
                              /\ error' = error
  /\ UNCHANGED outerVars
  /\ UNCHANGED << call, hasEthereum, currentChainId, requests, responses, paymentRequirements,
                  switchError, nonce, dateNow, validAfter, validBefore, signParams,
                  paymentResult, result >>

\* mutant of ChainIdResponse: the signature is requested on whatever chain
ChainIdResponseNoSwitch ==
  /\ pc = "awaitChainId"
  /\ \/ /\ Throw(Append(log, Event("reject", "wallet", "eth_chainId")),
                 "MetaMask payment failed", "eth_chainId")
        /\ UNCHANGED << nonce, dateNow, validAfter, validBefore, signParams, currentChainId >>
     \/ \E answer \in ChainIdAnswers :
          /\ currentChainId' = answer
          /\ RequestSignature(Append(log, Event("resolve", "wallet", "eth_chainId")))
          /\ error' = error
  /\ UNCHANGED outerVars
  /\ UNCHANGED << call, hasEthereum, requests, responses, paymentRequirements,
                  accounts, userAddress, switchError, paymentResult, result >>

\* eth_chainId settles: switch the network, or go on to sign
ChainIdResponse ==
  /\ pc = "awaitChainId"
  /\ \/ /\ Throw(Append(log, Event("reject", "wallet", "eth_chainId")),
                 "MetaMask payment failed", "eth_chainId")
        /\ UNCHANGED << nonce, dateNow, validAfter, validBefore, signParams, currentChainId >>
     \/ \E answer \in ChainIdAnswers :
          LET lg == Append(log, Event("resolve", "wallet", "eth_chainId")) IN
          /\ currentChainId' = answer
          /\ IF answer # targetChainIdHex
               THEN /\ log' = Append(lg, Event("request", "wallet", "wallet_switchEthereumChain"))
                    /\ pc' = "awaitSwitch"
                    /\ UNCHANGED << nonce, dateNow, validAfter, validBefore, signParams, error >>
               ELSE /\ RequestSignature(lg)
                    /\ error' = error
  /\ UNCHANGED outerVars
  /\ UNCHANGED << call, hasEthereum, requests, responses, paymentRequirements,
                  accounts, userAddress, switchError, paymentResult, result >>

\* mutant of SwitchResponse: every switch error is answered by adding the chain
SwitchResponseAlwaysAdd ==
  /\ pc = "awaitSwitch"
  /\ \/ /\ RequestSignature(Append(log, Event("resolve", "wallet", "wallet_switchEthereumChain")))
        /\ UNCHANGED << error, switchError >>
     \/ \E code \in SwitchErrorCodes :
          /\ switchError' = code
          /\ log' = log \o << Event("reject", "wallet", "wallet_switchEthereumChain"),
                              Event("request", "wallet", "wallet_addEthereumChain") >>
          /\ pc' = "awaitAdd"
          /\ UNCHANGED << nonce, dateNow, validAfter, validBefore, signParams, error >>
  /\ UNCHANGED outerVars
  /\ UNCHANGED << call, hasEthereum, currentChainId, requests, responses, paymentRequirements,
                  accounts, userAddress, paymentResult, result >>

\* wallet_switchEthereumChain settles: sign, add the chain (4902) or rethrow
SwitchResponse ==
  /\ pc = "awaitSwitch"
  /\ \/ /\ RequestSignature(Append(log, Event("resolve", "wallet", "wallet_switchEthereumChain")))
        /\ UNCHANGED << error, switchError >>
     \/ \E code \in SwitchErrorCodes :
          LET lg == Append(log, Event("reject", "wallet", "wallet_switchEthereumChain")) IN
          /\ switchError' = code
          /\ IF code = ChainNotAdded
               THEN /\ log' = Append(lg, Event("request", "wallet", "wallet_addEthereumChain"))
                    /\ pc' = "awaitAdd"
                    /\ UNCHANGED << nonce, dateNow, validAfter, validBefore, signParams, error >>
               ELSE /\ Throw(lg, "MetaMask payment failed", "wallet_switchEthereumChain")
                    /\ UNCHANGED << nonce, dateNow, validAfter, validBefore, signParams >>
  /\ UNCHANGED outerVars
  /\ UNCHANGED << call, hasEthereum, currentChainId, requests, responses, paymentRequirements,
                  accounts, userAddress, paymentResult, result >>

\* wallet_addEthereumChain settles
AddResponse ==
  /\ pc = "awaitAdd"
  /\ \/ /\ RequestSignature(Append(log, Event("resolve", "wallet", "wallet_addEthereumChain")))
        /\ error' = error
     \/ /\ Throw(Append(log, Event("reject", "wallet", "wallet_addEthereumChain")),
                 "MetaMask payment failed", "wallet_addEthereumChain")
        /\ UNCHANGED << nonce, dateNow, validAfter, validBefore, signParams >>
  /\ UNCHANGED outerVars
  /\ UNCHANGED << call, hasEthereum, currentChainId, requests, responses, paymentRequirements,
                  accounts, userAddress, switchError, paymentResult, result >>

\* mutant of SignResponse: a rejected signature is swallowed and the request
\* is reissued as it was
SignResponseSwallow ==
  /\ pc = "awaitSign"
  /\ \/ /\ requests' = Append(requests, InitialRequest(call))
        /\ log' = log \o << Event("reject", "wallet", "eth_signTypedData_v4"),
                            Event("request", "broker", "fetch") >>
        /\ pc' = "awaitRetry"
        /\ UNCHANGED << paymentResult, error >>
     \/ \E signature \in Signatures :
          LET paymentOption == SelectOption(paymentRequirements)
              token == EncodePayment(PaymentData(paymentOption, userAddress, signature,
                                                 nonce, validAfter, validBefore))
              payment == PaymentResult(token, paymentOption)
          IN /\ paymentResult' = payment
             /\ requests' = Append(requests, PaidRequest(call, PaymentHeaderValue(payment)))
             /\ log' = log \o << Event("resolve", "wallet", "eth_signTypedData_v4"),
                                 Event("request", "broker", "fetch") >>
             /\ pc' = "awaitRetry"
             /\ error' = error
  /\ UNCHANGED outerVars
  /\ UNCHANGED << call, hasEthereum, currentChainId, responses, paymentRequirements, accounts,
                  userAddress, switchError, nonce, dateNow, validAfter, validBefore,
                  signParams, result >>

\* eth_signTypedData_v4 settles: the token is encoded, createX402Payment
\* returns, and the executor reissues the request with the payment header
SignResponse ==
  /\ pc = "awaitSign"
  /\ \/ /\ Throw(Append(log, Event("reject", "wallet", "eth_signTypedData_v4")),
                 "MetaMask payment failed", "eth_signTypedData_v4")
        /\ UNCHANGED << requests, paymentResult >>
     \/ \E signature \in Signatures :
          LET paymentOption == SelectOption(paymentRequirements)
              token == EncodePayment(PaymentData(paymentOption, userAddress, signature,
                                                 nonce, validAfter, validBefore))
              payment == PaymentResult(token, paymentOption)
          IN /\ paymentResult' = payment
             /\ requests' = Append(requests, PaidRequest(call, PaymentHeaderValue(payment)))
             /\ log' = log \o << Event("resolve", "wallet", "eth_signTypedData_v4"),
                                 Event("request", "broker", "fetch") >>
             /\ pc' = "awaitRetry"
             /\ error' = error
  /\ UNCHANGED outerVars
  /\ UNCHANGED << call, hasEthereum, currentChainId, responses, paymentRequirements, accounts,
                  userAddress, switchError, nonce, dateNow, validAfter, validBefore,
                  signParams, result >>

\* mutant of RetryResponse: a 402 answer to the paid retry starts the payment
\* over
RetryResponseRepaying ==
  /\ pc = "awaitRetry"
  /\ \/ /\ Throw(Append(log, Event("reject", "broker", "fetch")), "TypeError", "fetch")
        /\ UNCHANGED << responses, result >>
     \/ \E response \in Responses :
          LET final == FinalResponse(call, response) IN
          /\ responses' = Append(responses, response)
          /\ IF response.status = 402
               THEN /\ pc' = "awaitAccounts"
                    /\ log' = log \o << Event("resolve", "broker", "fetch"),
                                        Event("request", "wallet", "eth_accounts") >>
                    /\ UNCHANGED << result, error >>
               ELSE /\ pc' = final.pc
                    /\ result' = final.result
                    /\ error' = final.error
                    /\ log' = Append(log, Event("resolve", "broker", "fetch"))
  /\ UNCHANGED outerVars
  /\ UNCHANGED << call, hasEthereum, currentChainId, requests, paymentRequirements, accounts,
                  userAddress, switchError, nonce, dateNow, validAfter, validBefore,
                  signParams, paymentResult >>

\* the paid retry settles: the final check of the response
RetryResponse ==
  /\ pc = "awaitRetry"
  /\ \/ /\ Throw(Append(log, Event("reject", "broker", "fetch")), "TypeError", "fetch")
        /\ UNCHANGED << responses, result >>
     \/ \E response \in Responses :
          LET final == FinalResponse(call, response) IN
          /\ responses' = Append(responses, response)
          /\ pc' = final.pc
          /\ result' = final.result
          /\ error' = final.error
          /\ log' = Append(log, Event("resolve", "broker", "fetch"))
  /\ UNCHANGED outerVars
  /\ UNCHANGED << call, hasEthereum, currentChainId, requests, paymentRequirements, accounts,
                  userAddress, switchError, nonce, dateNow, validAfter, validBefore,
                  signParams, paymentResult >>

(***************************************************************************)
(* The page handlers around the executor: handleExecute awaits broker.run, *)
(* handleUpload awaits broker.store                                        *)
(***************************************************************************)
\* endpoints whose call is awaited by handleExecute or handleUpload
HandledEndpoints == { "/run", "/store" }

\* the internal API the handler saves the job record to
SaveEndpoint(endpoint) == IF endpoint = "/run" THEN "/api/jobs/run" ELSE "/api/jobs/store"

\* the save request: POST of JSON.stringify(brokerResult)
SaveRequest(endpoint, brokerResult) ==
  [url |-> SaveEndpoint(endpoint), method |-> "POST",
   headers |-> ("Content-Type" :> "application/json"),
   body |-> JSONStringify(brokerResult)]

\* toast.error(error instanceof Error ? error.message : ...)
ErrorToast(message) == [kind |-> "error", message |-> message]

\* what the handler shows once the record is saved
SavedToast(endpoint, brokerResult) ==
  IF endpoint = "/store"
    THEN [kind |-> "success", message |-> "File uploaded successfully!"]
    ELSE IF Get(brokerResult, "result") = "undefined"
           THEN ErrorToast("TypeError")
           ELSE IF Get(brokerResult.result, "stdout") \notin {"undefined", ""}
                  THEN [kind |-> "success", message |-> "Code executed successfully!"]
                  ELSE IF Get(brokerResult.result, "stderr") \notin {"undefined", ""}
                         THEN ErrorToast("Code execution completed with errors")
                         ELSE toast

\* mutant of BrokerSettled: the record is saved however the broker call ended
BrokerSettledSaveAlways ==
  /\ handlerPc = "awaitBroker"
  /\ call.endpoint \in HandledEndpoints
  /\ pc \in {"DONE", "FAILED"}
  /\ saveRequests' = Append(saveRequests, SaveRequest(call.endpoint, result))
  /\ handlerPc' = "awaitSave"
  /\ UNCHANGED << busy, toast >>
  /\ UNCHANGED << executorVars, overlapVars, feeVars, sideVars >>

\* the awaited broker call settles: the record is saved, or the catch block
\* shows the error and the finally block clears the flag
BrokerSettled ==
  /\ handlerPc = "awaitBroker"
  /\ call.endpoint \in HandledEndpoints
  /\ \/ /\ pc = "DONE"
        /\ saveRequests' = Append(saveRequests, SaveRequest(call.endpoint, result))
        /\ handlerPc' = "awaitSave"
        /\ UNCHANGED << busy, toast >>
     \/ /\ pc = "FAILED"
        /\ toast' = ErrorToast(error.message)
        /\ busy' = FALSE
        /\ handlerPc' = "settled"
        /\ UNCHANGED saveRequests
  /\ UNCHANGED << executorVars, overlapVars, feeVars, sideVars >>

\* the save request settles: the outcome is shown and the flag is cleared
SaveSettled ==
  /\ handlerPc = "awaitSave"
  /\ \/ toast' = ErrorToast("TypeError")
     \/ \E ok \in BOOLEAN : toast' = SavedToast(call.endpoint, result)
  /\ busy' = FALSE
  /\ handlerPc' = "settled"
  /\ UNCHANGED saveRequests
  /\ UNCHANGED << executorVars, overlapVars, feeVars, sideVars >>

Next ==
  \/ BrokerCall
  \/ InitialResponse
  \/ AccountsResponse
  \/ ChainIdResponse
  \/ SwitchResponse
  \/ AddResponse
  \/ SignResponse
  \/ RetryResponse
  \/ BrokerSettled
  \/ SaveSettled

Spec == Init /\ [][Next]_vars

\* an issued broker or wallet request of the executor settles
RequestSettles ==
  \/ InitialResponse
  \/ AccountsResponse
  \/ ChainIdResponse
  \/ SwitchResponse
  \/ AddResponse
  \/ SignResponse
  \/ RetryResponse

\* the executor under the proviso that every issued request eventually
\* settles, by resolving or by rejecting
SpecSettling == Init /\ [][Next]_vars /\ WF_vars(RequestSettles)

(***************************************************************************)
(* Executor calls overlapping on the one provider.  Each call runs the     *)
(* steps of brokerRequestWithPayment; of its data only the wallet requests *)
(* are kept.                                                               *)
(***************************************************************************)
\* an executor that is not running
ExecutorAtRest ==
  /\ ExecutorInit
  /\ call = [branch |-> "json", endpoint |-> "/run",
             options |-> [method |-> "POST", body |-> "params", headers |-> NoHeaders]]
  /\ hasEthereum

\* the provider without the settled request of call c
Settled(c) == SelectSeq(walletPending, LAMBDA r : r.call # c)

\* window.ethereum.request({ method }) of call c, its earlier request settled
Request(c, method) == Append(Settled(c), [call |-> c, method |-> method])

\* call c goes on to pc with its wallet request settled
Proceed(c, to) ==
  /\ callPc' = [callPc EXCEPT ![c] = to]
  /\ walletPending' = Settled(c)

\* call c issues the wallet request and waits for it
Ask(c, method, to) ==
  /\ callPc' = [callPc EXCEPT ![c] = to]
  /\ walletPending' = Request(c, method)

OverlapUnchanged == UNCHANGED << executorVars, pageVars, feeVars, sideVars >>

\* a call of the executor: the first fetch is issued
CallStarts ==
  /\ \E c \in CallIds : callPc[c] = "INITIAL" /\ Proceed(c, "awaitFetch")
  /\ OverlapUnchanged

\* the first fetch of a call settles: final check, or 402 and eth_accounts
FetchSettles ==
  /\ \E c \in CallIds :
       /\ callPc[c] = "awaitFetch"
       /\ \/ Proceed(c, "DONE")
          \/ Proceed(c, "FAILED")
          \/ Ask(c, "eth_accounts", "awaitAccounts")
  /\ OverlapUnchanged

\* eth_accounts of a call settles
AccountsSettles ==
  /\ \E c \in CallIds :
       /\ callPc[c] = "awaitAccounts"
       /\ \/ Proceed(c, "FAILED")
          \/ Ask(c, "eth_chainId", "awaitChainId")
  /\ OverlapUnchanged

\* eth_chainId of a call settles
ChainIdSettles ==
  /\ \E c \in CallIds :
       /\ callPc[c] = "awaitChainId"
       /\ \/ Proceed(c, "FAILED")
          \/ Ask(c, "wallet_switchEthereumChain", "awaitSwitch")
          \/ Ask(c, "eth_signTypedData_v4", "awaitSign")
  /\ OverlapUnchanged

\* wallet_switchEthereumChain of a call settles
SwitchSettles ==
  /\ \E c \in CallIds :
       /\ callPc[c] = "awaitSwitch"
       /\ \/ Proceed(c, "FAILED")
          \/ Ask(c, "wallet_addEthereumChain", "awaitAdd")
          \/ Ask(c, "eth_signTypedData_v4", "awaitSign")
  /\ OverlapUnchanged

\* wallet_addEthereumChain of a call settles
AddSettles ==
  /\ \E c \in CallIds :
       /\ callPc[c] = "awaitAdd"
       /\ \/ Proceed(c, "FAILED")
          \/ Ask(c, "eth_signTypedData_v4", "awaitSign")
  /\ OverlapUnchanged

\* eth_signTypedData_v4 of a call settles: the paid retry is issued
SignSettles ==
  /\ \E c \in CallIds :
       /\ callPc[c] = "awaitSign"
       /\ \/ Proceed(c, "FAILED")
          \/ Proceed(c, "awaitRetry")
  /\ OverlapUnchanged

\* the paid retry of a call settles
RetrySettles ==
  /\ \E c \in CallIds :
       /\ callPc[c] = "awaitRetry"
       /\ \/ Proceed(c, "DONE")
          \/ Proceed(c, "FAILED")
  /\ OverlapUnchanged

NextOverlap ==
  \/ CallStarts
  \/ FetchSettles
  \/ AccountsSettles
  \/ ChainIdSettles
  \/ SwitchSettles
  \/ AddSettles
  \/ SignSettles
  \/ RetrySettles

InitOverlap == ExecutorAtRest /\ PageInit /\ OverlapInit /\ FeeIdle /\ SideIdle

SpecOverlap == InitOverlap /\ [][NextOverlap]_vars

(***************************************************************************)
(* The relay fee calculator.  Amounts are whole numbers of 0.0001 USD.     *)
(***************************************************************************)
Max(a, b) == IF a >= b THEN a ELSE b
Min(a, b) == IF a <= b THEN a ELSE b

\* minFee = 0.002 USD
minFee == 20

\* threePercent = targetAmountUSD * 0.03
threePercent(amount) == (amount * 3) \div 100

\* mutant of calculateRelayFee: the smaller of the two fees
calculateRelayFeeMin(amount) == Min(threePercent(amount), minFee)

\* Math.max(threePercent, minFee)
calculateRelayFee(amount) == Max(threePercent(amount), minFee)

\* targetAmountUSD + calculateRelayFee(targetAmountUSD)
calculateTotalAmount(amount) == amount + calculateRelayFee(amount)

\* calculateRelayFee(targetAmountUSD) is called
RelayFeeCalculated ==
  /\ relayFee = Unset
  /\ relayFee' = calculateRelayFee(targetAmountUSD)
  /\ UNCHANGED << targetAmountUSD, totalAmount, executorVars, pageVars, overlapVars,
                  sideVars >>

\* calculateTotalAmount(targetAmountUSD) is called
TotalAmountCalculated ==
  /\ totalAmount = Unset
  /\ totalAmount' = calculateTotalAmount(targetAmountUSD)
  /\ UNCHANGED << targetAmountUSD, relayFee, executorVars, pageVars, overlapVars,
                  sideVars >>

NextFee ==
  \/ RelayFeeCalculated
  \/ TotalAmountCalculated

\* the calculator is about to be called with an amount
FeeInit ==
  /\ targetAmountUSD \in Amounts
  /\ relayFee = Unset
  /\ totalAmount = Unset

InitFee == ExecutorAtRest /\ PageInit /\ OverlapInit /\ FeeInit /\ SideIdle

SpecFee == InitFee /\ [][NextFee]_vars

(***************************************************************************)
(* revokeApproval: approve(spender, 0) is sent and its receipt polled for  *)
(***************************************************************************)
\* const maxAttempts = 30
maxAttempts == 30

approveSignature == "0x095ea7b3"

\* the PaymentInfo values revokeApproval is called with
PaymentInfos ==
  { [network |-> "avalanche", spender |-> "0xPayeeA", asset |-> "0xUSDC",
     userAddress |-> "0xAlice"],
    [network |-> "avalanche", spender |-> "0xPayeeB", asset |-> "0xUSDCbase",
     userAddress |-> "0xBob"] }

\* what the wallet can answer to eth_getTransactionReceipt: null or a receipt
ReceiptAnswers ==
  { None, [status |-> "0x1"], [status |-> "0x0"], [blockNumber |-> "0x10"] }

\* s.replace('0x', ''), for a text that starts with 0x
Strip0x(t) == IF Len(t) >= 2 /\ SubSeq(t, 1, 2) = "0x" THEN SubSeq(t, 3, Len(t)) ELSE t

\* the call data of approve(spender, 0)
ApproveData(spender) ==
  approveSignature \o PadStart(Strip0x(spender), 64, "0") \o PadStart("0", 64, "0")

\* the catch block of revokeApproval
RevokeThrow(message) ==
  /\ revokePc' = "FAILED"
  /\ revokeError' = "Failed to revoke approval: " \o message

\* mutant of LoopContinues: one more attempt is allowed
LoopContinuesInclusive(r, n) == r = None /\ n <= maxAttempts

\* while (!receipt && attempts < maxAttempts)
LoopContinues(r, n) == r = None /\ n < maxAttempts

\* the head of the receipt loop and what follows it
ReceiptLoop(r, n) ==
  IF LoopContinues(r, n)
    THEN /\ polls' = polls + 1
         /\ revokePc' = "awaitReceipt"
         /\ revokeError' = revokeError
    ELSE /\ polls' = polls
         /\ IF r = None \/ Get(r, "status") = "0x0"
              THEN RevokeThrow("Revocation transaction failed")
              ELSE /\ revokePc' = "DONE"
                   /\ revokeError' = revokeError

\* revokeApproval is called: the wallet check and the eth_requestAccounts request
RevokeCall ==
  /\ revokePc = "INITIAL"
  /\ IF ~hasEthereum
       THEN /\ revokePc' = "FAILED"
            /\ revokeError' = "MetaMask not found"
       ELSE /\ revokePc' = "awaitRequestAccounts"
            /\ revokeError' = revokeError
  /\ UNCHANGED << paymentInfo, transaction, attempts, receipt, polls, notRevoke >>

\* eth_requestAccounts settles: approve(spender, 0) is sent
RequestAccountsSettles ==
  /\ revokePc = "awaitRequestAccounts"
  /\ \/ /\ RevokeThrow("wallet error")
        /\ UNCHANGED transaction
     \/ \E answer \in AccountLists :
          /\ transaction' = [from |-> IF Len(answer) = 0 THEN "undefined" ELSE answer[1],
                             to |-> paymentInfo.asset,
                             data |-> ApproveData(paymentInfo.spender),
                             value |-> "0x0"]
          /\ revokePc' = "awaitSendTransaction"
          /\ revokeError' = revokeError
  /\ UNCHANGED << paymentInfo, attempts, receipt, polls, notRevoke >>

\* eth_sendTransaction settles: the receipt loop is entered
SendTransactionSettles ==
  /\ revokePc = "awaitSendTransaction"
  /\ \/ /\ RevokeThrow("wallet error")
        /\ UNCHANGED << attempts, receipt, polls >>
     \/ /\ receipt' = None
        /\ attempts' = 0
        /\ ReceiptLoop(None, 0)
  /\ UNCHANGED << paymentInfo, transaction, notRevoke >>

\* eth_getTransactionReceipt settles: a receipt ends the loop, null or a
\* thrown error starts the 2 s timer
ReceiptSettles ==
  /\ revokePc = "awaitReceipt"
  /\ \/ /\ revokePc' = "awaitTimer"
        /\ UNCHANGED << receipt, polls, revokeError >>
     \/ \E answer \in ReceiptAnswers :
          /\ receipt' = answer
          /\ IF answer = None
               THEN /\ revokePc' = "awaitTimer"
                    /\ UNCHANGED << polls, revokeError >>
               ELSE ReceiptLoop(answer, attempts)
  /\ UNCHANGED << paymentInfo, transaction, attempts, notRevoke >>

\* the 2 s timer fires: attempts++ and back to the head of the loop
TimerFires ==
  /\ revokePc = "awaitTimer"
  /\ attempts' = attempts + 1
  /\ ReceiptLoop(receipt, attempts + 1)
  /\ UNCHANGED << paymentInfo, transaction, receipt, notRevoke >>

NextRevoke ==
  \/ RevokeCall
  \/ RequestAccountsSettles
  \/ SendTransactionSettles
  \/ ReceiptSettles
  \/ TimerFires

\* revokeApproval is about to be called
RevokeInit ==
  /\ paymentInfo \in PaymentInfos
  /\ revokePc = "INITIAL"
  /\ transaction = None
  /\ attempts = 0
  /\ receipt = None
  /\ polls = 0
  /\ revokeError = ""

InitRevoke ==
  /\ ExecutorInit
  /\ call = [branch |-> "json", endpoint |-> "/run",
             options |-> [method |-> "POST", body |-> "params", headers |-> NoHeaders]]
  /\ PageInit /\ OverlapInit /\ FeeIdle
  /\ RevokeInit /\ HttpayerIdle /\ RefreshIdle /\ WalletIdle

SpecRevoke == InitRevoke /\ [][NextRevoke]_vars

\* the payment flow is not running
CoreIdle == ExecutorAtRest /\ PageInit /\ OverlapInit /\ FeeIdle

(***************************************************************************)
(* fetchWith402: fetch, pay the invoice of a 402 at the relay, replay      *)
(***************************************************************************)
\* the arguments fetchWith402 is called with
Inputs == { "https://api.example/job" }
Inits == { [method |-> "GET"], [method |-> "POST", body |-> "data"] }

\* values of NEXT_PUBLIC_HTTPAYER_RELAY || ""
Relays == { "", "https://relay.example" }

\* bodies of the responses: { invoice, payUrl }, { invoice }, a bare invoice, no JSON
InvoiceBodies ==
  { JSONStringify([invoice |-> [amount |-> "1"], payUrl |-> "https://pay.example/custom"]),
    JSONStringify([invoice |-> [amount |-> "1"]]),
    JSONStringify([amount |-> "1"]),
    NotJSON }

\* what a server can answer to the original request and to its replay
FetchAnswers == [status : {200, 402, 500}, body : InvoiceBodies]

\* what the relay can answer to the pay request
PayAnswers == [status : {200, 402, 500}, body : {[raw |-> ""]}]

\* await res.clone().json().catch(() => null)
InvoiceBody(res) == IF JSONParse(res.body).ok THEN JSONParse(res.body).value ELSE Null

\* body?.payUrl || `${relay}/pay`
PayUrl(body, r) ==
  IF body # Null /\ Get(body, "payUrl") \notin {"undefined", ""}
    THEN body.payUrl
    ELSE r \o "/pay"

\* body?.invoice || body
Invoice(body) ==
  IF body # Null /\ "invoice" \in DOMAIN body THEN body.invoice ELSE body

\* fetch(input, init)
OriginalRequest == [url |-> input, init |-> init]

\* the pay request for the invoice of the 402 response
PayRequest(res) ==
  [url |-> PayUrl(InvoiceBody(res), relay),
   init |-> [method |-> "POST",
             headers |-> ("Content-Type" :> "application/json"),
             body |-> JSONStringify(Invoice(InvoiceBody(res)))]]

\* a fetch of fetchWith402 rejects: so does fetchWith402
FetchRejects ==
  /\ fetchPc' = "FAILED"
  /\ fetchError' = "TypeError"
  /\ UNCHANGED << fetchRequests, fetchResponses, fetchResult >>

\* fetchWith402 is called: the original request is issued
FetchCall ==
  /\ fetchPc = "INITIAL"
  /\ fetchRequests' = Append(fetchRequests, OriginalRequest)
  /\ fetchPc' = "awaitFetch"
  /\ UNCHANGED << input, init, relay, fetchResponses, fetchResult, fetchError, notHttpayer >>

\* the original request settles: the response is returned, or its invoice
\* is posted to the pay URL
FetchSettles402 ==
  /\ fetchPc = "awaitFetch"
  /\ \/ FetchRejects
     \/ \E res \in FetchAnswers :
          /\ fetchResponses' = Append(fetchResponses, res)
          /\ fetchError' = fetchError
          /\ IF res.status # 402
               THEN /\ fetchResult' = res
                    /\ fetchPc' = "DONE"
                    /\ fetchRequests' = fetchRequests
               ELSE /\ fetchRequests' = Append(fetchRequests, PayRequest(res))
                    /\ fetchPc' = "awaitPay"
                    /\ fetchResult' = fetchResult
  /\ UNCHANGED << input, init, relay, notHttpayer >>

\* mutant of PaySettles: the request is replayed whatever the relay answered
PaySettlesReplayAlways ==
  /\ fetchPc = "awaitPay"
  /\ \/ FetchRejects
     \/ \E payRes \in PayAnswers :
          /\ fetchResponses' = Append(fetchResponses, payRes)
          /\ fetchRequests' = Append(fetchRequests, OriginalRequest)
          /\ fetchPc' = "awaitReplay"
          /\ UNCHANGED << fetchResult, fetchError >>
  /\ UNCHANGED << input, init, relay, notHttpayer >>

\* the pay request settles: 'Payment failed', or the original request is replayed
PaySettles ==
  /\ fetchPc = "awaitPay"
  /\ \/ FetchRejects
     \/ \E payRes \in PayAnswers :
          /\ fetchResponses' = Append(fetchResponses, payRes)
          /\ IF ~Ok(payRes)
               THEN /\ fetchPc' = "FAILED"
                    /\ fetchError' = "Payment failed"
                    /\ UNCHANGED << fetchRequests, fetchResult >>
               ELSE /\ fetchRequests' = Append(fetchRequests, OriginalRequest)
                    /\ fetchPc' = "awaitReplay"
                    /\ UNCHANGED << fetchResult, fetchError >>
  /\ UNCHANGED << input, init, relay, notHttpayer >>

\* the replay settles: its response is returned whatever its status
ReplaySettles ==
  /\ fetchPc = "awaitReplay"
  /\ \/ FetchRejects
     \/ \E res \in FetchAnswers :
          /\ fetchResponses' = Append(fetchResponses, res)
          /\ fetchResult' = res
          /\ fetchPc' = "DONE"
          /\ UNCHANGED << fetchRequests, fetchError >>
  /\ UNCHANGED << input, init, relay, notHttpayer >>

NextHttpayer ==
  \/ FetchCall
  \/ FetchSettles402
  \/ PaySettles
  \/ ReplaySettles

\* fetchWith402 is about to be called
HttpayerInit ==
  /\ input \in Inputs
  /\ init \in Inits
  /\ relay \in Relays
  /\ fetchPc = "INITIAL"
  /\ fetchRequests = <<>>
  /\ fetchResponses = <<>>
  /\ fetchResult = None
  /\ fetchError = ""

InitHttpayer == CoreIdle /\ RevokeIdle /\ HttpayerInit /\ RefreshIdle /\ WalletIdle

SpecHttpayer == InitHttpayer /\ [][NextHttpayer]_vars

(***************************************************************************)
(* The status refresh endpoint: PATCH with the brokerJobId of a job        *)
(***************************************************************************)
\* what auth() can answer: no session, a session without a user id, users
\* with an account, a user without one
Sessions ==
  { Null, [user |-> [name |-> "anon"]], [user |-> [id |-> "u1"]],
    [user |-> [id |-> "u2"]], [user |-> [id |-> "u3"]] }

\* the route parameter: a job of two accounts, a job of one, no job at all
BrokerJobIds == { "j1", "j2", "j9" }

\* the id prisma gives to an account it creates
NewAccountId == "acc3"

\* bodies of the broker's answers: BrokerJobStatusResponse, or no JSON
StatusBodies ==
  { JSONStringify([status |-> "running", provider |-> "akash"]),
    JSONStringify([status |-> "completed", provider |-> "akash",
                   result |-> [result |-> [output |-> "out", exitCode |-> 0,
                                           executionTime |-> 12],
                               cid |-> "bafy", url |-> "https://ipfs/bafy", size |-> 3]]),
    JSONStringify([status |-> "completed", provider |-> "e2b",
                   result |-> [stdout |-> "hi", stderr |-> "warn", success |-> TRUE,
                               execution_time |-> 2]]),
    NotJSON }

\* what the broker can answer to /job/{id} and to /status/{id}
BrokerStatusAnswers == [status : {200, 404}, body : StatusBodies]

Has(o, f) == f \in DOMAIN o

\* !session?.user?.id
NoUserId(sess) == sess = Null \/ ~Has(sess, "user") \/ ~Has(sess.user, "id")

\* result.result?.result || result.result || result
ActualResult(r) ==
  IF Has(r, "result")
    THEN IF Has(r.result, "result") THEN r.result.result ELSE r.result
    ELSE r

\* the stdout, stderr, exitCode and executionTimeMs fields of updateData
ComputeFields(ar) ==
  (IF Has(ar, "output") /\ ar.output # "" THEN ("stdout" :> ar.output)
   ELSE IF Has(ar, "stdout") /\ ar.stdout # "" THEN ("stdout" :> ar.stdout)
   ELSE <<>>)
  @@ (IF Has(ar, "stderr") /\ ar.stderr # "" THEN ("stderr" :> ar.stderr) ELSE <<>>)
  @@ (IF Has(ar, "exitCode") THEN ("exitCode" :> ar.exitCode)
      ELSE IF Has(ar, "success") THEN ("exitCode" :> IF ar.success THEN 0 ELSE 1)
      ELSE IF Has(ar, "status") /\ ar.status = "succeeded" THEN ("exitCode" :> 0)
      ELSE <<>>)
  @@ (IF Has(ar, "executionTime") THEN ("executionTimeMs" :> ar.executionTime)
      ELSE IF Has(ar, "execution_time")
             THEN ("executionTimeMs" :> ar.execution_time * 1000)
      ELSE <<>>)

\* the txId, url and size fields of updateData
StorageFields(r) ==
  (IF Has(r, "cid") /\ r.cid # "" THEN ("txId" :> r.cid) ELSE <<>>)
  @@ (IF Has(r, "url") /\ r.url # "" THEN ("url" :> r.url) ELSE <<>>)
  @@ (IF Has(r, "size") THEN ("size" :> r.size) ELSE <<>>)

\* updateData
UpdateData(b) ==
  [status |-> Get(b, "status"), provider |-> Get(b, "provider"), rawStatus |-> b]
  @@ (IF Has(b, "result")
        THEN ComputeFields(ActualResult(b.result)) @@ StorageFields(b.result)
        ELSE <<>>)

\* mutant of Matches: the account of the caller is not part of the condition
MatchesAnyAccount(row, id, acc) == row.brokerJobId = id

\* where: { brokerJobId, userAccountId: account.id }
Matches(row, id, acc) == row.brokerJobId = id /\ row.userAccountId = acc

\* the rows the update and the final read select
Selected == { r \in DOMAIN userJob : Matches(userJob[r], brokerJobId, account) }

\* the handler returns NextResponse.json(body, { status })
Respond(status, body) ==
  /\ refreshResponse' = [status |-> status, body |-> body]
  /\ refreshPc' = "DONE"

\* the handler's catch block
RefreshCatch == Respond(500, [error |-> "Error refreshing job status"])

RefreshFixed == UNCHANGED << session, brokerJobId, brokerUrl, notRefresh >>

\* the account is known: the broker URL is checked and /job/{id} is fetched
FetchJob ==
  IF brokerUrl = "undefined"
    THEN Respond(500, [error |-> "Broker URL not configured"])
    ELSE /\ refreshPc' = "awaitJob"
         /\ refreshResponse' = refreshResponse

\* the request arrives: auth() is called
RefreshCall ==
  /\ refreshPc = "INITIAL"
  /\ refreshPc' = "awaitAuth"
  /\ UNCHANGED << userAccount, userJob, account, brokerResponse, refreshResponse >>
  /\ RefreshFixed

\* auth() settles: 401, or the caller's account is looked up
AuthSettles ==
  /\ refreshPc = "awaitAuth"
  /\ IF NoUserId(session)
       THEN Respond(401, [error |-> "Not authenticated"])
       ELSE /\ refreshPc' = "awaitFindAccount"
            /\ refreshResponse' = refreshResponse
  /\ UNCHANGED << userAccount, userJob, account, brokerResponse >>
  /\ RefreshFixed

\* userAccount.findUnique settles: the account is created if there is none
FindAccountSettles ==
  /\ refreshPc = "awaitFindAccount"
  /\ \/ RefreshCatch /\ account' = account
     \/ IF Has(userAccount, session.user.id)
          THEN /\ account' = userAccount[session.user.id]
               /\ FetchJob
          ELSE /\ account' = account
               /\ refreshPc' = "awaitCreateAccount"
               /\ refreshResponse' = refreshResponse
  /\ UNCHANGED << userAccount, userJob, brokerResponse >>
  /\ RefreshFixed

\* userAccount.create settles
CreateAccountSettles ==
  /\ refreshPc = "awaitCreateAccount"
  /\ \/ RefreshCatch /\ UNCHANGED << account, userAccount >>
     \/ /\ userAccount' = (session.user.id :> NewAccountId) @@ userAccount
        /\ account' = NewAccountId
        /\ FetchJob
  /\ UNCHANGED << userJob, brokerResponse >>
  /\ RefreshFixed

\* the fetch of /job/{id} settles: the update is issued, or /status/{id} is fetched
JobStatusSettles ==
  /\ refreshPc = "awaitJob"
  /\ \/ /\ refreshPc' = "awaitStatus"
        /\ brokerResponse' = brokerResponse
     \/ \E response \in BrokerStatusAnswers :
          IF Ok(response) /\ JSONParse(response.body).ok
            THEN /\ brokerResponse' = JSONParse(response.body).value
                 /\ refreshPc' = "awaitUpdate"
            ELSE /\ brokerResponse' = brokerResponse
                 /\ refreshPc' = "awaitStatus"
  /\ UNCHANGED << userAccount, userJob, account, refreshResponse >>
  /\ RefreshFixed

\* the fetch of /status/{id} settles: the update is issued, or 502
StatusSettles ==
  /\ refreshPc = "awaitStatus"
  /\ \/ /\ Respond(502, [error |-> "Failed to fetch job status from broker"])
        /\ brokerResponse' = brokerResponse
     \/ \E response \in BrokerStatusAnswers :
          IF Ok(response) /\ JSONParse(response.body).ok
            THEN /\ brokerResponse' = JSONParse(response.body).value
                 /\ refreshPc' = "awaitUpdate"
                 /\ refreshResponse' = refreshResponse
            ELSE /\ brokerResponse' = brokerResponse
                 /\ Respond(502, [error |-> "Failed to fetch job status from broker"])
  /\ UNCHANGED << userAccount, userJob, account >>
  /\ RefreshFixed

\* userJob.updateMany settles: 404 when no row was updated, else the job is read
UpdateSettles ==
  /\ refreshPc = "awaitUpdate"
  /\ \/ RefreshCatch /\ userJob' = userJob
     \/ /\ userJob' = [r \in DOMAIN userJob |->
                         IF r \in Selected THEN UpdateData(brokerResponse) @@ userJob[r]
                                           ELSE userJob[r]]
        /\ IF Cardinality(Selected) = 0
             THEN Respond(404, [error |-> "Job not found or access denied"])
             ELSE /\ refreshPc' = "awaitFindJob"
                  /\ refreshResponse' = refreshResponse
  /\ UNCHANGED << userAccount, account, brokerResponse >>
  /\ RefreshFixed

\* userJob.findFirst settles: the updated job is returned
FindJobSettles ==
  /\ refreshPc = "awaitFindJob"
  /\ \/ RefreshCatch
     \/ \E r \in Selected : Respond(200, userJob[r])
  /\ UNCHANGED << userAccount, userJob, account, brokerResponse >>
  /\ RefreshFixed

NextRefresh ==
  \/ RefreshCall
  \/ AuthSettles
  \/ FindAccountSettles
  \/ CreateAccountSettles
  \/ JobStatusSettles
  \/ StatusSettles
  \/ UpdateSettles
  \/ FindJobSettles

\* a refresh is about to be requested
RefreshInit ==
  /\ session \in Sessions
  /\ brokerJobId \in BrokerJobIds
  /\ brokerUrl \in {"https://broker", "undefined"}
  /\ userAccount = InitialAccounts
  /\ userJob = InitialJobs
  /\ account = None
  /\ brokerResponse = Null
  /\ refreshPc = "INITIAL"
  /\ refreshResponse = None

InitRefresh == CoreIdle /\ RevokeIdle /\ HttpayerIdle /\ RefreshInit /\ WalletIdle

SpecRefresh == InitRefresh /\ [][NextRefresh]_vars

(***************************************************************************)
(* WalletProvider: the restore effect at mount, connectWallet,             *)
(* disconnectWallet and the accountsChanged listener.  Each callback runs  *)
(* to its next await in one step; the answers of the wallet and the events *)
(* it emits are the environment's choice.                                  *)
(***************************************************************************)
\* the key of the persisted address
AddressKey == "galaksio_wallet_address"

\* addresses as wallets report them: checksummed, or in lower case
WalletAddresses == { "0xAbC", "0xabc", "0xDeF" }

\* what eth_accounts and eth_requestAccounts answer, what accountsChanged carries
WalletAccountLists == { <<>> } \cup { << a >> : a \in WalletAddresses }

\* the messages of a rejected eth_requestAccounts
ConnectErrors == { "", "User rejected the request." }

\* String.prototype.toLowerCase on the addresses above
toLowerCase(address) ==
  CASE address = "0xAbC" -> "0xabc"
    [] address = "0xDeF" -> "0xdef"
    [] OTHER -> address

\* localStorage.getItem(key)
getItem(storage, key) == IF key \in DOMAIN storage THEN storage[key] ELSE Null

\* localStorage.setItem(key, value)
setItem(storage, key, value) ==
  [k \in DOMAIN storage \cup { key } |-> IF k = key THEN value ELSE storage[k]]

\* localStorage.removeItem(key)
removeItem(storage, key) == [k \in DOMAIN storage \ { key } |-> storage[k]]

SuccessToast(message) == [kind |-> "success", message |-> message]

\* the restore effect runs at mount: it reads the saved address and, if there
\* is one and a wallet is injected, asks the wallet for its accounts
RestoreEffect ==
  /\ restorePc = "unmounted"
  /\ savedAddress' = getItem(localStorage, AddressKey)
  /\ restorePc' = IF AddressKey \in DOMAIN localStorage /\ hasEthereum
                    THEN "awaitAccounts"
                    ELSE "done"
  /\ UNCHANGED << walletAddress, isConnecting, localStorage, connectPc, walletToast >>
  /\ UNCHANGED notWallet

\* the eth_accounts request of the restore effect settles
RestoreSettles ==
  /\ restorePc = "awaitAccounts"
  /\ restorePc' = "done"
  /\ \/ /\ localStorage' = removeItem(localStorage, AddressKey)
        /\ UNCHANGED walletAddress
     \/ \E accountList \in WalletAccountLists :
          IF /\ Len(accountList) > 0
             /\ toLowerCase(accountList[1]) = toLowerCase(savedAddress)
            THEN /\ walletAddress' = accountList[1]
                 /\ UNCHANGED localStorage
            ELSE /\ localStorage' = removeItem(localStorage, AddressKey)
                 /\ UNCHANGED walletAddress
  /\ UNCHANGED << isConnecting, savedAddress, connectPc, walletToast >>
  /\ UNCHANGED notWallet

\* connectWallet up to its await
connectWallet ==
  /\ restorePc # "unmounted"
  /\ connectPc = "idle"
  /\ IF ~hasEthereum
       THEN /\ walletToast' = ErrorToast("Please install MetaMask")
            /\ UNCHANGED << isConnecting, connectPc >>
       ELSE /\ isConnecting' = TRUE
            /\ connectPc' = "awaitRequestAccounts"
            /\ UNCHANGED walletToast
  /\ UNCHANGED << walletAddress, localStorage, savedAddress, restorePc >>
  /\ UNCHANGED notWallet

\* the eth_requestAccounts request of connectWallet settles
ConnectSettles ==
  /\ connectPc = "awaitRequestAccounts"
  /\ connectPc' = "idle"
  /\ isConnecting' = FALSE
  /\ \/ \E message \in ConnectErrors :
          /\ walletToast' = ErrorToast(IF message = ""
                                        THEN "Failed to connect wallet"
                                        ELSE message)
          /\ UNCHANGED << walletAddress, localStorage >>
     \/ \E accountList \in WalletAccountLists :
          IF Len(accountList) > 0
            THEN /\ walletAddress' = accountList[1]
                 /\ localStorage' = setItem(localStorage, AddressKey, accountList[1])
                 /\ walletToast' = SuccessToast("Wallet connected!")
            ELSE UNCHANGED << walletAddress, localStorage, walletToast >>
  /\ UNCHANGED << savedAddress, restorePc >>
  /\ UNCHANGED notWallet

\* what disconnectWallet does to the provider and the storage
Disconnected ==
  /\ walletAddress' = "undefined"
  /\ localStorage' = removeItem(localStorage, AddressKey)
  /\ walletToast' = SuccessToast("Wallet disconnected")

disconnectWallet ==
  /\ restorePc # "unmounted"
  /\ Disconnected
  /\ UNCHANGED << isConnecting, savedAddress, restorePc, connectPc >>
  /\ UNCHANGED notWallet

\* the wallet emits accountsChanged
handleAccountsChanged ==
  /\ restorePc # "unmounted"
  /\ hasEthereum
  /\ \E accountList \in WalletAccountLists :
       IF Len(accountList) = 0
         THEN Disconnected
         ELSE IF accountList[1] # walletAddress
                THEN /\ walletAddress' = accountList[1]
                     /\ localStorage' = setItem(localStorage, AddressKey, accountList[1])
                     /\ walletToast' = SuccessToast("Wallet switched")
                ELSE UNCHANGED << walletAddress, localStorage, walletToast >>
  /\ UNCHANGED << isConnecting, savedAddress, restorePc, connectPc >>
  /\ UNCHANGED notWallet

NextWallet ==
  \/ RestoreEffect
  \/ RestoreSettles
  \/ connectWallet
  \/ ConnectSettles
  \/ disconnectWallet
  \/ handleAccountsChanged

\* before the mount: what an earlier visit left in the local storage
WalletInit ==
  /\ walletAddress = "undefined"
  /\ isConnecting = FALSE
  /\ localStorage \in { NoItems } \cup { setItem(NoItems, AddressKey, a) : a \in WalletAddresses }
  /\ savedAddress = Null
  /\ restorePc = "unmounted"
  /\ connectPc = "idle"
  /\ walletToast = NoToast

InitWallet ==
  /\ ExecutorInit
  /\ call = [branch |-> "json", endpoint |-> "/run",
             options |-> [method |-> "POST", body |-> "params", headers |-> NoHeaders]]
  /\ PageInit /\ OverlapInit /\ FeeIdle
  /\ RevokeIdle /\ HttpayerIdle /\ RefreshIdle /\ WalletInit

SpecWallet == InitWallet /\ [][NextWallet]_vars

(***************************************************************************)
(* Vocabulary of the properties                                            *)
(***************************************************************************)
\* the text is JSON
IsJSON(t) == "json" \in DOMAIN t

\* positions in the log of the requests made to the wallet
WalletRequests == { i \in DOMAIN log : log[i].ev = "request" /\ log[i].to = "wallet" }

\* the wallet methods requested so far
WalletMethods == { log[i].method : i \in WalletRequests }

\* positions in the log of the typed-data signature requests
SignatureRequests ==
  { i \in DOMAIN log : log[i] = Event("request", "wallet", "eth_signTypedData_v4") }

\* positions in the log where a 402 body was parsed as a challenge
ChallengeParses == { i \in DOMAIN log : log[i].ev = "parse" }

\* positions in the log of the requests sent to the broker
BrokerRequests == { i \in DOMAIN log : log[i] = Event("request", "broker", "fetch") }

SignatureObtained(i) == log[i] = Event("resolve", "wallet", "eth_signTypedData_v4")

\* the error taxonomy, read off the messages the code throws
RequestFailed(e, status) ==
  /\ e.message \in { "Broker request failed", "Cache request failed" }
  /\ e.detail = ToString(status)

MalformedChallenge(e) == e.message = "Invalid payment requirements from broker"

WalletNotConnected(e) ==
  e.message \in { "Payment required but wallet not connected", "Wallet not connected" }

\* the initial response was a 402 whose body parsed as a challenge
ChallengeReceived ==
  /\ Len(responses) >= 1
  /\ responses[1].status = 402
  /\ IsJSON(responses[1].body)

(***************************************************************************)
(* C1: one call of the executor makes at most one payment cycle: at most   *)
(* one signature request, at most one challenge parse and at most two      *)
(* broker requests; when the paid retry answers 402 the call has failed    *)
(* with the request-failed error of status 402 and nothing follows the     *)
(* retry's response.                                                       *)
(***************************************************************************)
C1_AtMostOnePaymentCycle ==
  /\ Len(requests) <= 2
  /\ Cardinality(BrokerRequests) <= 2
  /\ Cardinality(SignatureRequests) <= 1
  /\ Cardinality(ChallengeParses) <= 1
  /\ (Len(responses) = 2 /\ responses[2].status = 402) =>
       /\ pc = "FAILED"
       /\ RequestFailed(error, 402)
       /\ Len(requests) = 2
       /\ log[Len(log)] = Event("resolve", "broker", "fetch")

C1_Witness ==
  /\ Len(responses) = 2
  /\ responses[2].status = 402
  /\ pc = "FAILED"

(***************************************************************************)
(* C2 as stated: every successful (2xx) initial response makes the call    *)
(* return that response's body, after one broker request and no wallet     *)
(* request.                                                                *)
(***************************************************************************)
C2_EverySuccessReturned ==
  (Len(responses) >= 1 /\ Ok(responses[1])) =>
    /\ pc = "DONE"
    /\ IsJSON(responses[1].body)
    /\ result = responses[1].body.json
    /\ Len(requests) = 1
    /\ WalletRequests = {}

(***************************************************************************)
(* C2 amended: after a successful (2xx) initial response exactly one       *)
(* broker request was sent and no wallet request made; the call returns    *)
(* the body's value unmodified when the body is JSON, and rejects with the *)
(* parse error of response.json() when it is not.                          *)
(***************************************************************************)
C2_SuccessReturnedUnmodified ==
  (Len(responses) >= 1 /\ Ok(responses[1])) =>
    /\ Len(requests) = 1
    /\ Len(responses) = 1
    /\ WalletRequests = {}
    /\ ChallengeParses = {}
    /\ IF IsJSON(responses[1].body)
         THEN pc = "DONE" /\ result = responses[1].body.json
         ELSE pc = "FAILED" /\ error.message = "SyntaxError"

C2_Witness ==
  /\ Len(responses) = 1
  /\ Ok(responses[1])
  /\ pc = "DONE"
  /\ result = [jobId |-> "abc", status |-> "completed"]

\* the case of scenario A
C3_HappyPathCase ==
  /\ ChallengeReceived
  /\ responses[1].body.json = [x402Version |-> 1, accepts |-> <<OptionA>>]
  /\ \E i \in DOMAIN log : SignatureObtained(i)
  /\ Len(responses) = 2
  /\ Ok(responses[2])
  /\ IsJSON(responses[2].body)

(***************************************************************************)
(* C3: happy path.  The initial response is a 402 with one valid option,   *)
(* the wallet has an account and signs, and the retry answers 2xx with a   *)
(* JSON body B: the call returns B, two broker requests were sent (the     *)
(* initial one, then the one with the payment header) and one signature    *)
(* was requested.                                                          *)
(***************************************************************************)
C3_HappyPath ==
  C3_HappyPathCase =>
    /\ pc = "DONE"
    /\ result = responses[2].body.json
    /\ Len(requests) = 2
    /\ Cardinality(BrokerRequests) = 2
    /\ "X-Payment" \notin DOMAIN requests[1].headers
    /\ "X-Payment" \in DOMAIN requests[2].headers
    /\ Cardinality(SignatureRequests) = 1

C3_Witness ==
  /\ C3_HappyPathCase
  /\ responses[2].status = 200
  /\ result = [jobId |-> "abc", status |-> "completed"]

(***************************************************************************)
(* C4: a second broker request is sent only after the wallet has answered  *)
(* the signature request with a signature and the payment was encoded.     *)
(***************************************************************************)
C4_RetryAfterSignature ==
  /\ \A i \in BrokerRequests :
       (\E j \in BrokerRequests : j < i) =>
         /\ \E k \in DOMAIN log : k < i /\ SignatureObtained(k)
         /\ paymentResult # None
  /\ Len(requests) >= 2 => Cardinality(BrokerRequests) >= 2

C4_Witness ==
  /\ Len(requests) = 2
  /\ pc = "awaitRetry"

(***************************************************************************)
(* C5: a 402 whose body is not JSON makes the call fail with the           *)
(* malformed-challenge error; one broker request in all, no wallet         *)
(* request.                                                                *)
(***************************************************************************)
C5_MalformedChallenge ==
  (Len(responses) >= 1 /\ responses[1].status = 402 /\ ~IsJSON(responses[1].body)) =>
    /\ pc = "FAILED"
    /\ MalformedChallenge(error)
    /\ Len(requests) = 1
    /\ Len(responses) = 1
    /\ WalletRequests = {}

C5_Witness ==
  /\ Len(responses) = 1
  /\ responses[1] = [status |-> 402, body |-> NotJSON]
  /\ pc = "FAILED"

\* the wallet answered eth_accounts with no account
C6_NoAccounts ==
  /\ Event("resolve", "wallet", "eth_accounts") \in { log[i] : i \in DOMAIN log }
  /\ accounts = <<>>

(***************************************************************************)
(* C6: when a challenge was received and no chain provider is injected,    *)
(* or the wallet answers eth_accounts with no account, the call fails      *)
(* with the wallet-not-connected error; no retry is sent and neither a     *)
(* network switch nor a signature is requested.                            *)
(***************************************************************************)
C6_WalletNotConnected ==
  /\ (ChallengeReceived /\ ~hasEthereum) =>
       /\ pc = "FAILED"
       /\ WalletNotConnected(error)
       /\ Len(requests) = 1
       /\ WalletRequests = {}
  /\ C6_NoAccounts =>
       /\ pc = "FAILED"
       /\ WalletNotConnected(error)
       /\ Len(requests) = 1
       /\ WalletMethods = { "eth_accounts" }

C6_Witness ==
  /\ ChallengeReceived
  /\ C6_NoAccounts
  /\ pc = "FAILED"

(***************************************************************************)
(* C7: an initial response that is an error other than 402 ends the call   *)
(* as failed with that status, after one broker request and no wallet      *)
(* request.                                                                *)
(***************************************************************************)
C7_NonPaymentError ==
  (Len(responses) >= 1 /\ responses[1].status # 402 /\ ~Ok(responses[1])) =>
    /\ pc = "FAILED"
    /\ RequestFailed(error, responses[1].status)
    /\ Len(requests) = 1
    /\ Len(responses) = 1
    /\ WalletRequests = {}

C7_Witness ==
  /\ Len(responses) = 1
  /\ responses[1].status = 500
  /\ pc = "FAILED"

\* event i of the log is a failure of the payment path
C8_PaymentFailure(i) ==
  /\ log[i].ev = "reject"
  /\ log[i].to = "wallet"
  /\ ~(log[i].method = "wallet_switchEthereumChain" /\ switchError = ChainNotAdded)

C9_RetryReissuesOriginal ==
  Len(requests) >= 2 =>
    /\ requests[2].url = requests[1].url
    /\ requests[2].method = requests[1].method
    /\ requests[2].body = requests[1].body
    /\ \A h \in DOMAIN requests[1].headers :
         /\ h \in DOMAIN requests[2].headers
         /\ requests[2].headers[h] = requests[1].headers[h]
    /\ "X-Payment" \notin DOMAIN requests[1].headers
    /\ DOMAIN requests[2].headers = (DOMAIN requests[1].headers) \cup { "X-Payment" }

C9_Witness ==
  /\ Len(requests) = 2
  /\ call.options.headers = [Accept |-> "application/json"]

(***************************************************************************)
(* C10: the value of the payment header of the retried request is the      *)
(* token signWithMetaMask returned, the base64 text of the SignedPayment    *)
(* JSON.                                                                   *)
(***************************************************************************)
C10_HeaderIsEncodedToken ==
  Len(requests) >= 2 =>
    /\ requests[2].headers["X-Payment"] = paymentResult.paymentHeader
    /\ requests[2].headers["X-Payment"] =
         EncodePayment(PaymentData(paymentRequirements.accepts[1], userAddress,
                                   "0xsig", nonce, validAfter, validBefore))

\* the challenge the broker sent
Challenge == responses[1].body.json

InvalidChallenge(e) == e.message = "Invalid x402 payment requirements"

\* createX402Payment has been called: eth_accounts gave an account
PaymentCreationStarted ==
  /\ Event("resolve", "wallet", "eth_accounts") \in { log[i] : i \in DOMAIN log }
  /\ accounts # <<>>

\* the challenge has no list of options, or an empty one
NoOptions(challenge) ==
  \/ "accepts" \notin DOMAIN challenge
  \/ challenge.accepts = NotAList
  \/ challenge.accepts = <<>>

(***************************************************************************)
(* C11: for a challenge whose accepts is empty, absent or not a list,      *)
(* createX402Payment fails with the invalid-challenge error; up to then    *)
(* the wallet was asked for nothing but the accounts (no chain query, no   *)
(* network switch, no signature), and no retry is sent.                    *)
(***************************************************************************)
C11_EmptyAcceptsRejected ==
  (ChallengeReceived /\ NoOptions(Challenge)) =>
    /\ WalletMethods \subseteq { "eth_accounts" }
    /\ Len(requests) = 1
    /\ paymentResult = None
    /\ PaymentCreationStarted => (pc = "FAILED" /\ InvalidChallenge(error))

C11_Witness ==
  /\ ChallengeReceived
  /\ "accepts" \in DOMAIN Challenge
  /\ Challenge.accepts = <<>>
  /\ PaymentCreationStarted
  /\ pc = "FAILED"
  /\ InvalidChallenge(error)

\* the option lacks asset, payTo or maxAmountRequired
MissingRequiredField(option) ==
  \E f \in { "asset", "payTo", "maxAmountRequired" } : f \notin DOMAIN option

\* the challenge's first option lacks a required field
C12_Case ==
  /\ ChallengeReceived
  /\ ~NoOptions(Challenge)
  /\ MissingRequiredField(Challenge.accepts[1])

(***************************************************************************)
(* C12: for a payment option that lacks asset, payTo or maxAmountRequired  *)
(* the call fails with the invalid-challenge error once the payment is     *)
(* being created; no signature is requested and no token is produced.      *)
(***************************************************************************)
C12_MissingFieldRejected ==
  C12_Case =>
    /\ SignatureRequests = {}
    /\ paymentResult = None
    /\ Len(requests) = 1
    /\ PaymentCreationStarted => (pc = "FAILED" /\ InvalidChallenge(error))

\* the authorization inside the token createX402Payment returned
EncodedAuthorization == paymentResult.paymentHeader.b64.json.payload.authorization

\* the message given to the wallet to sign
SignedMessage == signParams.typedData.json.message

(***************************************************************************)
(* C13: whatever the other options are, the authorization is built from    *)
(* the first option of the challenge: in the message given to the wallet   *)
(* and in the encoded token, `to` is accepts[0].payTo, `value` is          *)
(* accepts[0].maxAmountRequired and `from` is the payer, the first account *)
(* of the wallet.                                                          *)
(***************************************************************************)
C13_FirstOptionVerbatim ==
  /\ signParams # None =>
       /\ SignedMessage.to = Get(Challenge.accepts[1], "payTo")
       /\ SignedMessage.value = Get(Challenge.accepts[1], "maxAmountRequired")
       /\ SignedMessage.from = accounts[1]
       /\ signParams.signer = accounts[1]
  /\ paymentResult # None =>
       /\ EncodedAuthorization.to = Get(Challenge.accepts[1], "payTo")
       /\ EncodedAuthorization.value = Get(Challenge.accepts[1], "maxAmountRequired")
       /\ EncodedAuthorization.from = accounts[1]

C13_Witness ==
  /\ paymentResult # None
  /\ Challenge.accepts = <<OptionB, OptionA>>
  /\ accounts = <<"0xBob", "0xAlice">>
  /\ EncodedAuthorization.to = "0xPayeeB"
  /\ EncodedAuthorization.value = "25000"

\* the EIP-712 domain given to the wallet
SignedDomain == signParams.typedData.json.domain

(***************************************************************************)
(* C14: the chain id of the signing domain, which is the chain the wallet  *)
(* is checked against and switched to, is the one the lookup table gives   *)
(* for the network label of the payment option; only a label the table     *)
(* does not know falls back to the default chain.                          *)
(***************************************************************************)
C14_ChainFromNetworkLabel ==
  (signParams # None /\ ~MissingRequiredField(Challenge.accepts[1])) =>
    SignedDomain.chainId = getChainIdFromNetwork(Get(Challenge.accepts[1], "network"))

\* the SignedPayment the token decodes to
DecodedPayment == JSONParse(Base64Decode(paymentResult.paymentHeader)).value

(***************************************************************************)
(* C15: decoding the token gives back the network label of the payment     *)
(* option, the payer and the payee; the PaymentInfo of createX402Payment    *)
(* has network = option.network, userAddress = payer and spender =         *)
(* option.payTo.                                                           *)
(***************************************************************************)
C15_RoundTrip ==
  (paymentResult # None /\ ~MissingRequiredField(Challenge.accepts[1])) =>
    /\ DecodedPayment.network = Get(Challenge.accepts[1], "network")
    /\ DecodedPayment.payload.authorization.from = accounts[1]
    /\ DecodedPayment.payload.authorization.to = Get(Challenge.accepts[1], "payTo")
    /\ paymentResult.paymentInfo.network = Get(Challenge.accepts[1], "network")
    /\ paymentResult.paymentInfo.userAddress = accounts[1]
    /\ paymentResult.paymentInfo.spender = Get(Challenge.accepts[1], "payTo")

(***************************************************************************)
(* C16: validAfter is the clock reading in whole unix seconds, validBefore *)
(* is validAfter + 900, and the signed message and the encoded token carry *)
(* these same two values.                                                  *)
(***************************************************************************)
C16_ValidityWindow ==
  /\ signParams # None =>
       /\ validAfter * 1000 <= dateNow
       /\ dateNow < (validAfter + 1) * 1000
       /\ validBefore = validAfter + 900
       /\ validAfter < validBefore
       /\ SignedMessage.validAfter = validAfter
       /\ SignedMessage.validBefore = validBefore
  /\ paymentResult # None =>
       /\ EncodedAuthorization.validAfter = ToString(validAfter)
       /\ EncodedAuthorization.validBefore = ToString(validBefore)

C16_Witness ==
  /\ paymentResult # None
  /\ dateNow % 1000 >= 500
  /\ SignedMessage.validBefore = validAfter + 900
  /\ EncodedAuthorization.validBefore = ToString(SignedMessage.validBefore)

\* the handler was invoked for a job submission: handleExecute or handleUpload
JobSubmission == call.endpoint \in HandledEndpoints

(***************************************************************************)
(* C18: handleExecute and handleUpload send the POST that saves the job    *)
(* record only after the broker call resolved successfully, with the       *)
(* broker's result as its body; when the executor failed, no save request  *)
(* is sent.                                                                *)
(***************************************************************************)
C18_SaveOnlyAfterSuccess ==
  /\ Len(saveRequests) <= 1
  /\ pc # "DONE" => saveRequests = <<>>
  /\ \A i \in DOMAIN saveRequests :
       /\ JobSubmission
       /\ saveRequests[i].url = (IF call.endpoint = "/run" THEN "/api/jobs/run"
                                                           ELSE "/api/jobs/store")
       /\ saveRequests[i].method = "POST"
       /\ saveRequests[i].body = JSONStringify(result)
  /\ (JobSubmission /\ handlerPc = "settled" /\ pc = "FAILED") =>
       /\ saveRequests = <<>>
       /\ toast.kind = "error"
       /\ ~busy

C18_Witness ==
  /\ JobSubmission
  /\ SignatureRequests # {}
  /\ pc = "FAILED"
  /\ handlerPc = "settled"
  /\ saveRequests = <<>>
  /\ toast = [kind |-> "error", message |-> "MetaMask payment failed"]

\* the wallet requests that open a prompt for the user to answer
Prompts == { "wallet_switchEthereumChain", "eth_signTypedData_v4" }

(***************************************************************************)
(* C19: of two executor calls that overlap on the one provider, none       *)
(* issues a network-switch or signature request while a wallet request of  *)
(* the other call is still pending.                                        *)
(***************************************************************************)
C19_PromptsNotInterleaved ==
  \A i, j \in DOMAIN walletPending :
    (i < j /\ walletPending[j].method \in Prompts) =>
      walletPending[i].call = walletPending[j].call

(***************************************************************************)
(* C20: for every target amount x >= 0 the relay fee is the larger of 3%   *)
(* of x and 0.002 USD, so it is 0.002 for x = 0.01 and 0.03 for x = 1.00   *)
(* and never below 0.002; the total amount is x plus the relay fee.        *)
(***************************************************************************)
C20_RelayFee ==
  /\ relayFee # Unset =>
       /\ relayFee >= 20
       /\ relayFee * 100 >= targetAmountUSD * 3
       /\ relayFee = 20 \/ relayFee * 100 = targetAmountUSD * 3
       /\ targetAmountUSD = 100 => relayFee = 20
       /\ targetAmountUSD = 10000 => relayFee = 300
  /\ totalAmount # Unset =>
       /\ totalAmount - targetAmountUSD >= 20
       /\ (totalAmount - targetAmountUSD) * 100 >= targetAmountUSD * 3
       /\ \/ totalAmount - targetAmountUSD = 20
          \/ (totalAmount - targetAmountUSD) * 100 = targetAmountUSD * 3
  /\ (relayFee # Unset /\ totalAmount # Unset) =>
       totalAmount = targetAmountUSD + relayFee

C20_Witness ==
  /\ targetAmountUSD = 10000
  /\ relayFee = 300
  /\ totalAmount = 10300

\* the error of a revocation that ran out of attempts, as the caller sees it
RevocationTimeout(message) ==
  message = "Failed to revoke approval: Revocation transaction failed"

(***************************************************************************)
(* C21: revokeApproval polls for the receipt at most 30 times; after 30    *)
(* polls without a receipt (null or a thrown error) no further poll is     *)
(* made and the operation fails with the timeout error.                    *)
(***************************************************************************)
C21_PollBudget ==
  /\ polls <= 30
  /\ attempts <= 30
  /\ revokePc \in {"awaitReceipt", "awaitTimer"} =>
       (receipt = None /\ attempts < 30 /\ polls = attempts + 1)
  /\ (attempts = 30 /\ receipt = None) =>
       /\ revokePc = "FAILED"
       /\ polls = 30
       /\ RevocationTimeout(revokeError)

C21_Witness ==
  /\ revokePc = "FAILED"
  /\ polls = 30
  /\ attempts = 30
  /\ receipt = None
  /\ RevocationTimeout(revokeError)

(***************************************************************************)
(* C22: a receipt with the failure status 0x0 makes revokeApproval fail    *)
(* with an error the caller can tell apart from the timeout error.         *)
(***************************************************************************)
C22_FailedDistinctFromTimeout ==
  (revokePc = "FAILED" /\ receipt # None /\ Get(receipt, "status") = "0x0") =>
    ~RevocationTimeout(revokeError)

\* the wallet requests of the payment flow
PaymentFlowMethods ==
  { "eth_accounts", "eth_chainId", "wallet_switchEthereumChain",
    "wallet_addEthereumChain", "eth_signTypedData_v4" }

(***************************************************************************)
(* C23: the executor never triggers a revocation: whether it succeeds or   *)
(* fails, it submits no eth_sendTransaction and does not call              *)
(* revokeApproval; its wallet requests are account discovery, chain query, *)
(* network switch or add, and typed-data signing only.                     *)
(***************************************************************************)
C23_NoRevocationInPaymentFlow ==
  /\ WalletMethods \subseteq PaymentFlowMethods
  /\ "eth_sendTransaction" \notin { log[i].method : i \in DOMAIN log }
  /\ revokePc = "INITIAL"
  /\ transaction = None
  /\ polls = 0

C23_Witness ==
  /\ pc = "FAILED"
  /\ Len(requests) = 2
  /\ WalletMethods = PaymentFlowMethods
  /\ revokePc = "INITIAL"

(***************************************************************************)
(* C24: fetchWith402 returns a non-402 response as it is after exactly one *)
(* request.  On 402 it POSTs the invoice to the pay URL; it replays the    *)
(* original request exactly once and only after the pay request was ok; a  *)
(* pay response that is not ok throws 'Payment failed' with no replay.  No *)
(* run issues more than three requests, even when the replay is 402 again. *)
(***************************************************************************)
C24_FetchWith402 ==
  /\ Len(fetchRequests) <= 3
  /\ \A i \in DOMAIN fetchRequests :
       i # 2 => fetchRequests[i] = [url |-> input, init |-> init]
  /\ (Len(fetchResponses) >= 1 /\ fetchResponses[1].status # 402) =>
       /\ fetchPc = "DONE"
       /\ fetchResult = fetchResponses[1]
       /\ Len(fetchRequests) = 1
  /\ Len(fetchRequests) >= 2 =>
       /\ fetchResponses[1].status = 402
       /\ fetchRequests[2].init.method = "POST"
       /\ IsJSON(fetchRequests[2].init.body)
       /\ fetchRequests[2].url # input
       /\ (IsJSON(fetchResponses[1].body)
             /\ "payUrl" \in DOMAIN fetchResponses[1].body.json) =>
            fetchRequests[2].url = fetchResponses[1].body.json.payUrl
       /\ ~IsJSON(fetchResponses[1].body) =>
            fetchRequests[2].url = relay \o "/pay"
       /\ (IsJSON(fetchResponses[1].body)
             /\ "invoice" \in DOMAIN fetchResponses[1].body.json) =>
            fetchRequests[2].init.body.json = fetchResponses[1].body.json.invoice
  /\ Len(fetchRequests) = 3 =>
       (fetchResponses[2].status >= 200 /\ fetchResponses[2].status <= 299)
  /\ (Len(fetchResponses) >= 2
        /\ ~(fetchResponses[2].status >= 200 /\ fetchResponses[2].status <= 299)) =>
       /\ fetchPc = "FAILED"
       /\ fetchError = "Payment failed"
       /\ Len(fetchRequests) = 2
  /\ Len(fetchResponses) = 3 =>
       /\ fetchPc = "DONE"
       /\ fetchResult = fetchResponses[3]

C24_Witness ==
  /\ fetchPc = "DONE"
  /\ Len(fetchRequests) = 3
  /\ fetchRequests[2].url = "https://relay.example/pay"
  /\ fetchRequests[2].init.body = [json |-> [amount |-> "1"]]
  /\ fetchResponses[3].status = 402
  /\ fetchResult.status = 402

\* the account of the authenticated caller, None when there is none
CallerAccount ==
  IF NoUserId(session) \/ ~Has(userAccount, session.user.id)
    THEN None
    ELSE [id |-> userAccount[session.user.id]]

\* the record had the requested brokerJobId and belonged to the caller
OwnRequestedJob(r) ==
  /\ InitialJobs[r].brokerJobId = brokerJobId
  /\ CallerAccount # None
  /\ InitialJobs[r].userAccountId = CallerAccount.id

\* the handler has answered
Answered == refreshPc = "DONE"

(***************************************************************************)
(* C25, as the claim states it: every authenticated refresh that matches   *)
(* no record of the caller is answered 404 (internal errors, answered 500, *)
(* set aside).                                                             *)
(***************************************************************************)
C25_UnmatchedAlways404 ==
  (Answered /\ ~NoUserId(session) /\ refreshResponse.status # 500
     /\ \A r \in DOMAIN InitialJobs : ~OwnRequestedJob(r)) =>
    refreshResponse.status = 404

(***************************************************************************)
(* C25, amended: a refresh changes only records that have the requested    *)
(* brokerJobId and belong to the caller's account, and never their         *)
(* brokerJobId or owner; a call without a user id is answered 401 and      *)
(* changes nothing; once the broker's status was fetched, a refresh        *)
(* matching no record of the caller is answered 404 (or 500 when the       *)
(* database fails), and 404 is answered in no other case.                  *)
(***************************************************************************)
C25_RefreshIsolation ==
  /\ DOMAIN userJob = DOMAIN InitialJobs
  /\ \A r \in DOMAIN InitialJobs :
       /\ userJob[r].brokerJobId = InitialJobs[r].brokerJobId
       /\ userJob[r].userAccountId = InitialJobs[r].userAccountId
       /\ userJob[r] # InitialJobs[r] => OwnRequestedJob(r)
  /\ (Answered /\ NoUserId(session)) =>
       /\ refreshResponse.status = 401
       /\ userJob = InitialJobs
       /\ userAccount = InitialAccounts
  /\ (Answered /\ brokerResponse # Null
        /\ \A r \in DOMAIN InitialJobs : ~OwnRequestedJob(r)) =>
       /\ refreshResponse.status \in {404, 500}
       /\ userJob = InitialJobs
  /\ (Answered /\ refreshResponse.status = 404) =>
       /\ brokerResponse # Null
       /\ \A r \in DOMAIN InitialJobs : ~OwnRequestedJob(r)

C25_Witness ==
  /\ Answered
  /\ refreshResponse.status = 200
  /\ session = [user |-> [id |-> "u1"]]
  /\ brokerJobId = "j1"
  /\ userJob["r1"].status = "completed"
  /\ userJob["r2"] = InitialJobs["r2"]
  /\ userJob["r3"] = InitialJobs["r3"]

\* the wallet request that settled just before position i of the log
SettledBefore(i) == IF i > 1 THEN log[i - 1] ELSE None

SwitchRejected ==
  Event("reject", "wallet", "wallet_switchEthereumChain") \in { log[i] : i \in DOMAIN log }

AddRejected ==
  Event("reject", "wallet", "wallet_addEthereumChain") \in { log[i] : i \in DOMAIN log }

(***************************************************************************)
(* C26: every eth_signTypedData_v4 request is preceded, in the same call,  *)
(* by an eth_chainId answer equal to the target chain, by a successful     *)
(* wallet_switchEthereumChain, or by a successful wallet_addEthereumChain  *)
(* that followed a switch failure with code 4902.  A switch failure with   *)
(* another code, or a failed add, ends the call with no signature request. *)
(***************************************************************************)
C26_SignAfterChainEnsured ==
  /\ \A i \in SignatureRequests :
       \/ /\ SettledBefore(i) = Event("resolve", "wallet", "eth_chainId")
          /\ currentChainId = "0xa86a"
       \/ /\ SettledBefore(i) = Event("resolve", "wallet", "wallet_switchEthereumChain")
          /\ currentChainId # "0xa86a"
          /\ ~SwitchRejected
       \/ /\ SettledBefore(i) = Event("resolve", "wallet", "wallet_addEthereumChain")
          /\ SwitchRejected
          /\ switchError = 4902
  /\ (SwitchRejected /\ switchError # 4902) =>
       (SignatureRequests = {} /\ pc = "FAILED")
  /\ AddRejected => (SignatureRequests = {} /\ pc = "FAILED")

C26_Witness ==
  /\ SignatureRequests # {}
  /\ SwitchRejected
  /\ switchError = 4902
  /\ Event("resolve", "wallet", "wallet_addEthereumChain") \in { log[i] : i \in DOMAIN log }
  /\ paymentResult # None

(***************************************************************************)
(* C27: the authorization inside every encoded token is the one that was   *)
(* signed: from, to, value, validAfter, validBefore and nonce equal the    *)
(* fields of the typed-data message given to eth_signTypedData_v4 (the     *)
(* numbers as decimal strings), and the signer given to the wallet is      *)
(* from.                                                                   *)
(***************************************************************************)
C27_TokenCarriesSignedMessage ==
  paymentResult # None =>
    /\ EncodedAuthorization.from = SignedMessage.from
    /\ EncodedAuthorization.to = SignedMessage.to
    /\ EncodedAuthorization.value = SignedMessage.value
    /\ EncodedAuthorization.validAfter = ToString(SignedMessage.validAfter)
    /\ EncodedAuthorization.validBefore = ToString(SignedMessage.validBefore)
    /\ EncodedAuthorization.nonce = SignedMessage.nonce
    /\ signParams.signer = EncodedAuthorization.from
    /\ DOMAIN EncodedAuthorization = DOMAIN SignedMessage

C27_Witness ==
  /\ paymentResult # None
  /\ EncodedAuthorization.nonce = SignedMessage.nonce
  /\ SignedMessage.nonce = NonceHex(MaxNonce)
  /\ EncodedAuthorization.validAfter = ToString(Epoch + 1)
  /\ SignedMessage.validAfter = Epoch + 1
  /\ signParams.signer = "0xBob"

\* the wallet was asked to switch to the target chain
SwitchRequested ==
  Event("request", "wallet", "wallet_switchEthereumChain") \in { log[i] : i \in DOMAIN log }

(***************************************************************************)
(* C28: for every produced token, the network label in the token maps, in  *)
(* the lookup table, to the chain id of the signing domain; the chain the  *)
(* wallet was found on or asked to switch to is that chain id; and the     *)
(* domain's verifying contract is the asset address of the option.         *)
(***************************************************************************)
C28_TokenDomainConsistent ==
  paymentResult # None =>
    /\ DecodedPayment.network \in DOMAIN ChainIdTable
    /\ ChainIdTable[DecodedPayment.network] = SignedDomain.chainId
    /\ targetChainIdHex = "0x" \o ToString16(SignedDomain.chainId)
    /\ currentChainId = "0x" \o ToString16(SignedDomain.chainId) \/ SwitchRequested
    /\ SignedDomain.verifyingContract = Get(Challenge.accepts[1], "asset")

C28_Witness ==
  /\ paymentResult # None
  /\ Challenge.accepts = <<OptionA>>
  /\ SwitchRequested
  /\ DecodedPayment.network = "avalanche"
  /\ SignedDomain.chainId = 43114
  /\ SignedDomain.verifyingContract = "0xUSDC"

\* the executor call has returned or thrown
Terminal == pc \in { "DONE", "FAILED" }

\* the position of each await in the one pass of brokerRequestWithPayment
Rank ==
  [p \in { "INITIAL", "awaitFetch", "awaitAccounts", "awaitChainId", "awaitSwitch",
           "awaitAdd", "awaitSign", "awaitRetry", "DONE", "FAILED" } |->
     CASE p = "INITIAL" -> 0
       [] p = "awaitFetch" -> 1
       [] p = "awaitAccounts" -> 2
       [] p = "awaitChainId" -> 3
       [] p = "awaitSwitch" -> 4
       [] p = "awaitAdd" -> 5
       [] p = "awaitSign" -> 6
       [] p = "awaitRetry" -> 7
       [] OTHER -> 8]

(***************************************************************************)
(* C29: provided every issued broker and wallet request settles, every     *)
(* executor call reaches DONE with a returned body or FAILED with an       *)
(* error; the executor has no loop: each settled request moves the call    *)
(* strictly forward, and a terminal call stays as it ended.                *)
(***************************************************************************)
C29_CallTerminates ==
  /\ (pc # "INITIAL") ~> Terminal
  /\ [][/\ pc' # pc => Rank[pc'] > Rank[pc]
        /\ RequestSettles => pc' # pc
        /\ Terminal => pc' = pc /\ result' = result /\ error' = error]_vars
  /\ [](pc = "DONE" => result # None /\ error = NoError)
  /\ [](pc = "FAILED" => error # NoError /\ result = None)

C29_Witness ==
  /\ pc = "DONE"
  /\ result # None
  /\ paymentResult # None
  /\ Len(requests) = 2
  /\ Event("resolve", "wallet", "wallet_addEthereumChain") \in { log[i] : i \in DOMAIN log }

\* the address the local storage holds
PersistedAddress == localStorage[AddressKey]

\* both the in-memory address and the persisted address are cleared
BothCleared == walletAddress = "undefined" /\ AddressKey \notin DOMAIN localStorage

(***************************************************************************)
(* C30: whenever walletAddress is set, the local storage holds the same    *)
(* address under 'galaksio_wallet_address', compared case-insensitively,   *)
(* and while disconnectWallet is the last thing the provider reported,     *)
(* both are cleared: also when the answer to the restore's eth_accounts    *)
(* request arrives after a connect, a switch or a disconnect.              *)
(***************************************************************************)
C30_AddressConsistent ==
  /\ walletAddress # "undefined" =>
       /\ AddressKey \in DOMAIN localStorage
       /\ toLowerCase(PersistedAddress) = toLowerCase(walletAddress)
  /\ walletToast = SuccessToast("Wallet disconnected") => BothCleared

====
